---- MODULE Spec2Model ----
(***************************************************************************)
(* A model of turbo-composer's incremental class-discovery engine          *)
(* (rust/src/classmap): the cache store, the directory walker in its full  *)
(* and fast-path modes, the compliance classifier and the orchestrator.    *)
(*                                                                         *)
(* Strings whose characters the code inspects (paths, class names,         *)
(* namespace prefixes) are sequences of one-character strings, so that     *)
(* starts_with, strip_suffix, replace and slicing are computed as the code *)
(* computes them.                                                          *)
(***************************************************************************)
EXTENDS Integers, Sequences, FiniteSets, TLC

VARIABLES
    fs,         \* the file tree: path -> [kind, mtime, content]
    now,        \* the wall clock in whole seconds (get_mtime truncates to seconds)
    disk,       \* the bytes of <target_dir>/.turbo-cache, as a decoded document
    pending,    \* what happened to the tree and the cache file since the last run
    ops,        \* how many changes were made to the tree and the cache file
    last,       \* what the last invocation of run() did and returned
    runs,       \* how many invocations of run() have happened
    cin,        \* cache store: the CacheData handed to save_cache
    cout,       \* cache store: what load_cache returned
    vin,        \* classifier: the arguments of is_class_valid
    vres,       \* classifier: its result
    din,        \* dirs_unchanged: its arguments (cache, dirs)
    dres,       \* dirs_unchanged: its result, and the mode walk_and_parse then takes
    min,        \* merge loop: the entry stream handed to it
    mres,       \* merge loop: the table it built
    xin,        \* exclusion: the roots and patterns of the configuration
    xres,       \* exclusion: per invocation, the walker's mode and the table
    pin,        \* parser: the source text handed to extract_php_symbols
    pres,       \* parser: the symbols it returned
    proc        \* the process or call followed step by step: its input, position and locals

vars == <<fs, now, disk, pending, ops, last, runs, cin, cout, vin, vres, din, dres, min, mres, xin, xres, pin, pres,
          proc>>

-----------------------------------------------------------------------------
(* Bounds of the model. *)

\* the clock runs over 1..MaxTime
MaxTime == 2
\* invocations of run() in one behaviour
MaxRuns == 2
\* changes made to the tree and to the cache file in one behaviour
MaxOps == 1
\* length of a PSR-4 / PSR-0 / classmap list handed to is_class_valid
MaxMaps == 2
\* lexical fragments a source text handed to the parser is put together from
MaxToks == 4

-----------------------------------------------------------------------------
(* String helpers: str::starts_with, ends_with, strip_suffix, replace. *)

starts_with(s, p) == Len(p) <= Len(s) /\ SubSeq(s, 1, Len(p)) = p

ends_with(s, p) == Len(p) <= Len(s) /\ SubSeq(s, Len(s) - Len(p) + 1, Len(s)) = p

strip_suffix_or(s, p) == IF ends_with(s, p) THEN SubSeq(s, 1, Len(s) - Len(p)) ELSE s

replace(s, from, to) == [i \in 1..Len(s) |-> IF s[i] = from THEN to ELSE s[i]]

\* str::rfind(c): the last index of c in s, 0 when absent
rfind(s, c) == IF \E i \in 1..Len(s) : s[i] = c
               THEN CHOOSE i \in 1..Len(s) : s[i] = c /\ \A j \in (i+1)..Len(s) : s[j] # c
               ELSE 0

Slash == <<"/">>
DotPhp == <<".", "p", "h", "p">>

\* Path::extension() == "php"
has_php_extension(p) == ends_with(p, DotPhp) /\ Len(p) > Len(DotPhp) /\ p[Len(p) - Len(DotPhp)] # "/"

Range(s) == {s[i] : i \in 1..Len(s)}

\* F(v), with v evaluated once
With(v, F(_)) == CHOOSE x \in {F(r) : r \in {v}} : TRUE

\* all sequences over S of length 0..n
SeqUpTo(S, n) == UNION {[1..k -> S] : k \in 0..n}

\* the sub-sequence of s whose elements satisfy membership in S
RECURSIVE SelectIn(_, _)
SelectIn(s, S) == IF s = <<>> THEN <<>>
                  ELSE (IF Head(s) \in S THEN <<Head(s)>> ELSE <<>>) \o SelectIn(Tail(s), S)

RECURSIVE Flatten(_)
Flatten(ss) == IF ss = <<>> THEN <<>> ELSE Head(ss) \o Flatten(Tail(ss))

-----------------------------------------------------------------------------
(* The file tree of the run fixtures: a project source directory mapped by *)
(* a PSR-4 rule, the vendor directory, and a project directory beside the  *)
(* vendor directory whose name extends the vendor directory's name; the    *)
(* last two are classmap directories.                                      *)

SrcDir == <<"/", "s">>
VendorDir == <<"/", "v">>
SideDir == <<"/", "v", "x">>
FileA == SrcDir \o <<"/", "A">> \o DotPhp
FileV == VendorDir \o <<"/", "V">> \o DotPhp
FileW == SideDir \o <<"/", "W">> \o DotPhp

Dirs == {SrcDir, VendorDir, SideDir}
Files == {FileA, FileV, FileW}
Paths == Dirs \cup Files

NsN == <<"N", "\\">>
ClassA == NsN \o <<"A">>
ClassB == NsN \o <<"B">>

\* What a file's text declares: the result of the symbol parser on it.
\* "none" is a text without any declaration keyword; "locked" is a file
\* whose bytes cannot be read.
extract_php_symbols(content) ==
    CASE content = "A"    -> <<ClassA>>
      [] content = "AB"   -> <<ClassA, ClassB>>
      [] content = "B"    -> <<ClassB>>
      [] OTHER            -> <<>>

contains_class_keyword(content) == content \in {"A", "AB", "B"}

\* the texts each fixture file is written with
ContentsOf(f) ==
    CASE f = FileA -> {"A", "AB"}
      [] f = FileV -> {"A", "B"}
      [] f = FileW -> {"A", "B"}

\* the states a file is created in: with one of its texts, or unreadable
CreatedAs(f) == IF f = FileA THEN ContentsOf(f) \cup {"locked"} ELSE ContentsOf(f)

\* the directory holding a fixture file
ParentOf(f) == CHOOSE d \in Dirs : SubSeq(f, 1, Len(d) + 1) = d \o <<"/">>

Absent == [kind |-> "absent", mtime |-> 0, content |-> "none"]

-----------------------------------------------------------------------------
(* Cache store (classmap/cache.rs). *)

CACHE_VERSION == 2

\* CacheData::default(): version 0, no files, no directory mtimes
DefaultCache == [version |-> 0, files |-> <<>>, dir_mtimes |-> <<>>]

\* The cache file. kind: "missing" (no such file), "garbage" (unreadable or
\* not decodable as a CacheData), "json" (a document with a version number and
\* the members of its "files" and "dir_mtimes" objects).
NoFile == [kind |-> "missing", version |-> 0, files |-> {}, dir_mtimes |-> {}]
Garbage == [kind |-> "garbage", version |-> 0, files |-> {}, dir_mtimes |-> {}]

\* a plausible slip: the document is written in the version-1 layout, which
\* had no "dir_mtimes" member
to_vec_v1(cache) ==
    [kind |-> "json",
     version |-> cache.version,
     files |-> {<<p, cache.files[p].mtime, cache.files[p].symbols>> : p \in DOMAIN cache.files},
     dir_mtimes |-> {}]

\* serde_json::to_vec(cache): one member per map entry
to_vec(cache) ==
    [kind |-> "json",
     version |-> cache.version,
     files |-> {<<p, cache.files[p].mtime, cache.files[p].symbols>> : p \in DOMAIN cache.files},
     dir_mtimes |-> {<<d, cache.dir_mtimes[d]>> : d \in DOMAIN cache.dir_mtimes}]

\* serde_json::from_slice::<CacheData>(data), for a decodable document
from_slice(doc) ==
    [version |-> doc.version,
     files |-> [p \in {m[1] : m \in doc.files} |->
                  LET m == CHOOSE x \in doc.files : x[1] = p
                  IN  [mtime |-> m[2], symbols |-> m[3]]],
     dir_mtimes |-> [d \in {m[1] : m \in doc.dir_mtimes} |->
                  (CHOOSE x \in doc.dir_mtimes : x[1] = d)[2]]]

\* a plausible slip: the version filter is dropped
load_cache_unversioned(doc) ==
    IF doc.kind = "json" THEN from_slice(doc) ELSE DefaultCache

load_cache(doc) ==
    IF doc.kind = "json" /\ from_slice(doc).version = CACHE_VERSION
    THEN from_slice(doc)
    ELSE DefaultCache

\* save_cache: fs::write creates or truncates the file and writes the bytes;
\* its error is dropped.  A failed write leaves the old file (it could not
\* be opened) or a truncated one.
save_cache(old, cache, outcome) ==
    CASE outcome = "ok"        -> to_vec(cache)
      [] outcome = "unopened"  -> old
      [] outcome = "truncated" -> Garbage

SaveOutcomes == {"ok", "unopened", "truncated"}

\* get_mtime: the modification time in whole seconds, 0 on any error
get_mtime(p) == IF p \in DOMAIN fs /\ fs[p].kind # "absent" THEN fs[p].mtime ELSE 0

is_file(p) == p \in DOMAIN fs /\ fs[p].kind = "file"
is_dir(p) == p \in DOMAIN fs /\ fs[p].kind = "dir"
exists(p) == p \in DOMAIN fs /\ fs[p].kind # "absent"

\* a plausible slip: a zero (unknown) mtime is accepted when it equals the cached one
dirs_unchanged_zero_ok(cache, dirs) ==
    IF DOMAIN cache.dir_mtimes = {} \/ DOMAIN cache.files = {} THEN FALSE
    ELSE IF \E i \in 1..Len(dirs) :
               ~is_file(dirs[i]) /\ exists(dirs[i]) /\ dirs[i] \notin DOMAIN cache.dir_mtimes
    THEN FALSE
    ELSE IF \E d \in DOMAIN cache.dir_mtimes : get_mtime(d) # cache.dir_mtimes[d]
    THEN FALSE
    ELSE TRUE

dirs_unchanged(cache, dirs) ==
    IF DOMAIN cache.dir_mtimes = {} \/ DOMAIN cache.files = {} THEN FALSE
    ELSE IF \E i \in 1..Len(dirs) :
               ~is_file(dirs[i]) /\ exists(dirs[i]) /\ dirs[i] \notin DOMAIN cache.dir_mtimes
    THEN FALSE
    ELSE IF \E d \in DOMAIN cache.dir_mtimes :
               get_mtime(d) # cache.dir_mtimes[d] \/ get_mtime(d) = 0
    THEN FALSE
    ELSE TRUE

-----------------------------------------------------------------------------
(* Compliance classifier (classmap/mod.rs). A mapping is <<namespace, base>>. *)

\* `base` with a trailing separator: the prefix a file under it starts with
dir_prefix(base) == IF ends_with(base, Slash) THEN base ELSE base \o Slash

\* file_path[rel_start..] with ".php" stripped; callers check the length first
relative_of(base_path, file_path) ==
    LET rel_start == Len(dir_prefix(base_path))
    IN  strip_suffix_or(SubSeq(file_path, rel_start + 1, Len(file_path)), DotPhp)

\* a plausible slip: the prefix is stripped only from a name that starts with it
is_psr4_compliant_prefix_checked(class, ns_prefix, base_path, file_path) ==
    LET rel_start == Len(dir_prefix(base_path))
    IN  IF Len(file_path) <= rel_start THEN FALSE
        ELSE IF starts_with(class, ns_prefix) /\ (ns_prefix = <<>> \/ Len(class) > Len(ns_prefix))
             THEN replace(SubSeq(class, Len(ns_prefix) + 1, Len(class)), "\\", "/")
                    = relative_of(base_path, file_path)
        ELSE FALSE

\* a plausible slip: only the directory of the expected path is compared
is_psr4_compliant_directory_only(class, ns_prefix, base_path, file_path) ==
    LET rel_start == Len(dir_prefix(base_path))
        prefix_len == Len(ns_prefix)
        expected == replace(SubSeq(class, prefix_len + 1, Len(class)), "\\", "/")
        relative == relative_of(base_path, file_path)
    IN  IF Len(file_path) <= rel_start THEN FALSE
        ELSE IF prefix_len = 0 \/ Len(class) > prefix_len
             THEN SubSeq(expected, 1, rfind(expected, "/")) = SubSeq(relative, 1, rfind(relative, "/"))
        ELSE FALSE

\* a plausible slip: underscores become separators in the namespace part too
is_psr0_compliant_all_underscores(class, base_path, file_path) ==
    LET rel_start == Len(dir_prefix(base_path))
    IN  IF Len(file_path) <= rel_start THEN FALSE
        ELSE replace(replace(class, "\\", "/"), "_", "/") = relative_of(base_path, file_path)

is_psr4_compliant(class, ns_prefix, base_path, file_path) ==
    LET rel_start == Len(dir_prefix(base_path))
        prefix_len == Len(ns_prefix)
    IN  IF Len(file_path) <= rel_start THEN FALSE
        ELSE IF prefix_len > 0 /\ Len(class) > prefix_len
             THEN replace(SubSeq(class, prefix_len + 1, Len(class)), "\\", "/")
                    = relative_of(base_path, file_path)
        ELSE IF prefix_len = 0
             THEN replace(class, "\\", "/") = relative_of(base_path, file_path)
        ELSE FALSE

is_psr0_compliant(class, base_path, file_path) ==
    LET rel_start == Len(dir_prefix(base_path))
        last_bs == rfind(class, "\\")
        expected == IF last_bs > 0
                    THEN replace(SubSeq(class, 1, last_bs), "\\", "/")
                           \o replace(SubSeq(class, last_bs + 1, Len(class)), "_", "/")
                    ELSE replace(class, "_", "/")
    IN  IF Len(file_path) <= rel_start THEN FALSE
        ELSE expected = relative_of(base_path, file_path)

\* a plausible slip: the first matching mapping is kept, whatever its length
RECURSIVE first_match(_, _, _, _)
first_match(maps, file_path, i, best) ==
    IF i > Len(maps) THEN best
    ELSE IF starts_with(file_path, dir_prefix(maps[i][2])) /\ best = 0
         THEN first_match(maps, file_path, i + 1, i)
         ELSE first_match(maps, file_path, i + 1, best)

\* The loop "find the longest matching base path": the index of the chosen
\* mapping, 0 when none matches.  A later mapping replaces the chosen one
\* only when its base is strictly longer.
RECURSIVE best_match(_, _, _, _)
best_match(maps, file_path, i, best) ==
    IF i > Len(maps) THEN best
    ELSE IF starts_with(file_path, dir_prefix(maps[i][2]))
            /\ (best = 0 \/ Len(maps[i][2]) > Len(maps[best][2]))
         THEN best_match(maps, file_path, i + 1, i)
         ELSE best_match(maps, file_path, i + 1, best)

in_classmap_dir(file_path, classmap_dirs) ==
    \E i \in 1..Len(classmap_dirs) :
        starts_with(file_path, dir_prefix(classmap_dirs[i])) \/ file_path = classmap_dirs[i]

\* a plausible slip: a file that no mapping covers is rejected
is_class_valid_unmapped_rejected(class, file_path, psr4, psr0, classmap_dirs) ==
    LET b4 == best_match(psr4, file_path, 1, 0)
        b0 == best_match(psr0, file_path, 1, 0)
    IN  IF in_classmap_dir(file_path, classmap_dirs) THEN TRUE
        ELSE IF b4 # 0 THEN is_psr4_compliant(class, psr4[b4][1], psr4[b4][2], file_path)
        ELSE IF b0 # 0 THEN is_psr0_compliant(class, psr0[b0][2], file_path)
        ELSE FALSE

\* a plausible slip: the classmap directories are consulted after the mappings
is_class_valid_mappings_first(class, file_path, psr4, psr0, classmap_dirs) ==
    LET b4 == best_match(psr4, file_path, 1, 0)
        b0 == best_match(psr0, file_path, 1, 0)
    IN  IF b4 # 0 THEN is_psr4_compliant(class, psr4[b4][1], psr4[b4][2], file_path)
        ELSE IF b0 # 0 THEN is_psr0_compliant(class, psr0[b0][2], file_path)
        ELSE TRUE

is_class_valid(class, file_path, psr4, psr0, classmap_dirs) ==
    LET b4 == best_match(psr4, file_path, 1, 0)
        b0 == best_match(psr0, file_path, 1, 0)
    IN  IF in_classmap_dir(file_path, classmap_dirs) THEN TRUE
        ELSE IF b4 # 0 THEN is_psr4_compliant(class, psr4[b4][1], psr4[b4][2], file_path)
        ELSE IF b0 # 0 THEN is_psr0_compliant(class, psr0[b0][2], file_path)
        ELSE TRUE

-----------------------------------------------------------------------------
(* Incremental walker (classmap/walker.rs). *)

\* An exclusion pattern is a compiled pattern or, in short, the text t of the
\* regex  escape(t) "($|/)" , the form the caller builds; Regex::is_match
\* searches the whole path.
\* A pattern given as regex source text is compiled by Regex::new into
\* <<"regex", item, ...>>: an item is a character, `.`, `^`, `$` or the
\* caller's group ($|/), a character or `.` possibly under `*`.
RegexItem(kind, c) == [kind |-> kind, c |-> c, star |-> FALSE]

NoRegex == [ok |-> FALSE, items |-> <<>>]

\* the parse of the source text: a `*` with nothing to repeat, a group left
\* open, a `)` without its `(` and a trailing `\` are syntax errors
RECURSIVE parse_regex(_, _, _)
parse_regex(src, items, open) ==
    IF src = <<>> THEN (IF open = 0 THEN [ok |-> TRUE, items |-> items] ELSE NoRegex)
    ELSE LET c == Head(src)
             n == Len(items)
         IN  CASE c = "*" ->
                    IF n = 0 THEN NoRegex
                    ELSE parse_regex(Tail(src), [items EXCEPT ![n].star = TRUE], open)
               [] c = "(" ->
                    IF starts_with(src, <<"(", "$", "|", "/", ")">>)
                    THEN parse_regex(SubSeq(src, 6, Len(src)),
                                     Append(items, RegexItem("end_or_slash", "")), open)
                    ELSE parse_regex(Tail(src), items, open + 1)
               [] c = ")" ->
                    IF open = 0 THEN NoRegex ELSE parse_regex(Tail(src), items, open - 1)
               [] c = "\\" ->
                    IF Len(src) = 1 THEN NoRegex
                    ELSE parse_regex(SubSeq(src, 3, Len(src)),
                                     Append(items, RegexItem("char", src[2])), open)
               [] c = "." -> parse_regex(Tail(src), Append(items, RegexItem("any", "")), open)
               [] c = "^" -> parse_regex(Tail(src), Append(items, RegexItem("start", "")), open)
               [] c = "$" -> parse_regex(Tail(src), Append(items, RegexItem("end", "")), open)
               [] OTHER   -> parse_regex(Tail(src), Append(items, RegexItem("char", c)), open)

\* Regex::new(source).ok(): the compiled pattern, or nothing
Regex_new(source) ==
    LET parsed == parse_regex(source, <<>>, 0)
    IN  IF parsed.ok THEN << <<"regex">> \o parsed.items >> ELSE <<>>

\* the items match the path from position i on
RECURSIVE match_here(_, _, _)
match_here(items, path, i) ==
    IF items = <<>> THEN TRUE
    ELSE LET h == Head(items)
             one == i <= Len(path) /\ (h.kind = "any" \/ path[i] = h.c)
         IN  CASE h.kind = "start" -> i = 1 /\ match_here(Tail(items), path, i)
               [] h.kind = "end"   -> i = Len(path) + 1 /\ match_here(Tail(items), path, i)
               [] h.kind = "end_or_slash" ->
                    \/ i = Len(path) + 1 /\ match_here(Tail(items), path, i)
                    \/ i <= Len(path) /\ path[i] = "/" /\ match_here(Tail(items), path, i + 1)
               [] OTHER ->
                    IF h.star
                    THEN \/ match_here(Tail(items), path, i)
                         \/ one /\ match_here(items, path, i + 1)
                    ELSE one /\ match_here(Tail(items), path, i + 1)

\* Regex::is_match of a compiled pattern: a match anywhere in the path
regex_search(re, path) ==
    \E i \in 1..(Len(path) + 1) : match_here(Tail(re), path, i)

is_compiled(re) == re # <<>> /\ re[1] = "regex"

re_is_match(re, path) ==
    IF is_compiled(re) THEN regex_search(re, path)
    ELSE \E i \in 1..(Len(path) - Len(re) + 1) :
            /\ SubSeq(path, i, i + Len(re) - 1) = re
            /\ (i + Len(re) - 1 = Len(path) \/ path[i + Len(re)] = "/")

excluded(excludes, path) == \E re \in excludes : re_is_match(re, path)

pairs(symbols, path) == [i \in 1..Len(symbols) |-> <<symbols[i], path>>]

\* fs::read(path) succeeds
can_read(path) == is_file(path) /\ fs[path].content # "locked"

NoResult == [some |-> FALSE, entries |-> <<>>, cache_entry |-> [mtime |-> 0, symbols |-> <<>>],
             hit |-> 0, scanned |-> 0, read |-> FALSE]

\* a plausible slip: a cached record is reused without comparing the mtime
parse_one_file_no_mtime(path, file_cache) ==
    LET mtime == get_mtime(path)
        content == fs[path].content
        symbols == IF contains_class_keyword(content) THEN extract_php_symbols(content) ELSE <<>>
    IN  IF path \in DOMAIN file_cache
        THEN [some |-> TRUE, entries |-> pairs(file_cache[path].symbols, path),
              cache_entry |-> file_cache[path], hit |-> 1,
              scanned |-> IF file_cache[path].symbols # <<>> THEN 1 ELSE 0, read |-> FALSE]
        ELSE IF ~can_read(path) THEN NoResult
        ELSE [some |-> TRUE, entries |-> pairs(symbols, path),
              cache_entry |-> [mtime |-> mtime, symbols |-> symbols], hit |-> 0,
              scanned |-> IF symbols # <<>> THEN 1 ELSE 0, read |-> TRUE]

\* parse_one_file: the ParseResult, with the two counters it bumps (hit,
\* scanned) and whether the file's bytes were read and parsed
\* a plausible slip: a file whose read fails is recorded as a file without symbols
parse_one_file_failure_recorded(path, file_cache) ==
    LET mtime == get_mtime(path)
        content == fs[path].content
        symbols == IF contains_class_keyword(content) /\ can_read(path)
                   THEN extract_php_symbols(content) ELSE <<>>
    IN  IF path \in DOMAIN file_cache /\ file_cache[path].mtime = mtime
        THEN [some |-> TRUE, entries |-> pairs(file_cache[path].symbols, path),
              cache_entry |-> file_cache[path], hit |-> 1,
              scanned |-> IF file_cache[path].symbols # <<>> THEN 1 ELSE 0, read |-> FALSE]
        ELSE [some |-> TRUE, entries |-> pairs(symbols, path),
              cache_entry |-> [mtime |-> mtime, symbols |-> symbols], hit |-> 0,
              scanned |-> IF symbols # <<>> THEN 1 ELSE 0, read |-> can_read(path)]

parse_one_file(path, file_cache) ==
    LET mtime == get_mtime(path)
        content == fs[path].content
        symbols == IF contains_class_keyword(content) THEN extract_php_symbols(content) ELSE <<>>
    IN  IF path \in DOMAIN file_cache /\ file_cache[path].mtime = mtime
        THEN [some |-> TRUE, entries |-> pairs(file_cache[path].symbols, path),
              cache_entry |-> file_cache[path], hit |-> 1,
              scanned |-> IF file_cache[path].symbols # <<>> THEN 1 ELSE 0, read |-> FALSE]
        ELSE IF ~can_read(path) THEN NoResult
        ELSE [some |-> TRUE, entries |-> pairs(symbols, path),
              cache_entry |-> [mtime |-> mtime, symbols |-> symbols], hit |-> 0,
              scanned |-> IF symbols # <<>> THEN 1 ELSE 0, read |-> TRUE]

\* the merge loop over the flattened results: entries in path order, and the
\* new "files" map
\* a plausible slip: the result of the path delivered last is dropped
merged_entries_last_lost(paths, results) ==
    Flatten([i \in 1..(Len(paths) - 1) |-> results[i].entries])

merged_entries(paths, results) ==
    Flatten([i \in 1..Len(paths) |-> results[i].entries])

\* a plausible slip: a path whose read failed gets a record too
merged_files_of_all(paths, results) ==
    [p \in Range(paths) |->
        results[CHOOSE i \in 1..Len(paths) : paths[i] = p /\ \A j \in 1..Len(paths) : paths[j] = p => j <= i].cache_entry]

merged_files(paths, results) ==
    LET ok == {i \in 1..Len(paths) : results[i].some}
    IN  [p \in {paths[i] : i \in ok} |->
            results[CHOOSE i \in ok : paths[i] = p /\ \A j \in ok : paths[j] = p => j <= i].cache_entry]

count(results, field) == Cardinality({i \in 1..Len(results) : results[i][field] = 1})

\* n copies of x
RECURSIVE repeat(_, _)
repeat(x, n) == IF n = 0 THEN <<>> ELSE <<x>> \o repeat(x, n - 1)

\* walk_and_parse_full.  `ord` lists the paths in the order the walker
\* threads happen to deliver them.
walk_and_parse_full(dirs, excludes, cache, ord) ==
    LET single == SelectSeq(dirs, LAMBDA d : is_file(d) /\ has_php_extension(d))
        walk_dirs == SelectSeq(dirs, LAMBDA d : exists(d) /\ ~is_file(d))
        visited(p) == Cardinality({i \in 1..Len(walk_dirs) :
                          p = walk_dirs[i] \/ starts_with(p, dir_prefix(walk_dirs[i]))})
        dir_mtimes == [d \in {p \in DOMAIN fs : is_dir(p) /\ visited(p) > 0} |-> get_mtime(d)]
        sent(p) == /\ is_file(p) /\ visited(p) > 0
                   /\ has_php_extension(p) /\ ~excluded(excludes, p)
        found == Flatten([i \in 1..Len(ord) |->
                            IF sent(ord[i]) THEN repeat(ord[i], visited(ord[i])) ELSE <<>>])
        paths == single \o found
    IN  With([i \in 1..Len(paths) |-> parse_one_file(paths[i], cache.files)],
             LAMBDA results :
        [entries |-> merged_entries(paths, results),
         files_scanned |-> count(results, "scanned"),
         php_files_found |-> Len(paths),
         directories_walked |-> Len(walk_dirs),
         cache_hits |-> count(results, "hit"),
         new_cache |-> [version |-> CACHE_VERSION,
                        files |-> merged_files(paths, results),
                        dir_mtimes |-> dir_mtimes],
         walk_skipped |-> FALSE,
         statted |-> Range(paths),
         read |-> {paths[i] : i \in {j \in 1..Len(paths) : results[j].read}},
         trusted |-> {}])

\* the single-file roots the fast path adds to non_vendor_paths, in order,
\* skipping those already listed
RECURSIVE extra_files(_, _, _)
extra_files(dirs, vendor_files, listed) ==
    IF dirs = <<>> THEN <<>>
    ELSE LET p == Head(dirs)
         IN  IF is_file(p) /\ has_php_extension(p) /\ p \notin vendor_files /\ p \notin listed
             THEN <<p>> \o extra_files(Tail(dirs), vendor_files, listed \cup {p})
             ELSE extra_files(Tail(dirs), vendor_files, listed)

belongs(dirs, path_str) ==
    \E i \in 1..Len(dirs) :
        IF is_file(dirs[i]) THEN path_str = dirs[i] ELSE starts_with(path_str, dirs[i])

in_vendor(path_str, vendor_dir) == starts_with(path_str, vendor_dir)

\* walk_and_parse_cached.  `ord` lists the cached paths in the iteration order
\* of the cache's hash map.
walk_and_parse_cached(dirs, excludes, cache, vendor_dir, ord) ==
    LET kept == SelectSeq(SelectIn(ord, DOMAIN cache.files),
                          LAMBDA p : belongs(dirs, p) /\ ~excluded(excludes, p))
        vendor == SelectSeq(kept, LAMBDA p : in_vendor(p, vendor_dir))
        non_vendor == SelectSeq(kept, LAMBDA p : ~in_vendor(p, vendor_dir))
        extra == extra_files(dirs, Range(vendor), Range(non_vendor))
        php_files_found == Len(kept) + Len(extra)
        non_vendor_paths == non_vendor \o extra
        vendor_entries == Flatten([i \in 1..Len(vendor) |->
                                     pairs(cache.files[vendor[i]].symbols, vendor[i])])
        vendor_files_with_symbols ==
            Cardinality({p \in Range(vendor) : cache.files[p].symbols # <<>>})
    IN  With([i \in 1..Len(non_vendor_paths) |->
                 parse_one_file(non_vendor_paths[i], cache.files)],
             LAMBDA results :
        [entries |-> vendor_entries \o merged_entries(non_vendor_paths, results),
         files_scanned |-> count(results, "scanned") + vendor_files_with_symbols,
         php_files_found |-> php_files_found,
         directories_walked |-> 0,
         cache_hits |-> count(results, "hit") + php_files_found - Len(non_vendor_paths),
         new_cache |-> [version |-> CACHE_VERSION,
                        files |-> With(merged_files(non_vendor_paths, results),
                                       LAMBDA parsed_files :
                                       [p \in Range(vendor) \cup DOMAIN parsed_files |->
                                          IF p \in DOMAIN parsed_files THEN parsed_files[p]
                                          ELSE cache.files[p]]),
                        dir_mtimes |-> cache.dir_mtimes],
         walk_skipped |-> TRUE,
         statted |-> Range(non_vendor_paths),
         read |-> {non_vendor_paths[i] :
                     i \in {j \in 1..Len(non_vendor_paths) : results[j].read}},
         trusted |-> Range(vendor)])

\* a plausible slip: the fast path is taken whenever the cache holds files
walk_and_parse_no_dir_check(dirs, excludes, cache, vendor_dir, ord) ==
    IF DOMAIN cache.files # {}
    THEN walk_and_parse_cached(dirs, excludes, cache, vendor_dir, ord)
    ELSE walk_and_parse_full(dirs, excludes, cache, ord)

walk_and_parse(dirs, excludes, cache, vendor_dir, ord) ==
    IF dirs_unchanged(cache, dirs)
    THEN walk_and_parse_cached(dirs, excludes, cache, vendor_dir, ord)
    ELSE walk_and_parse_full(dirs, excludes, cache, ord)

-----------------------------------------------------------------------------
(* Orchestrator (classmap/mod.rs, run). *)

\* the configuration of the run fixtures; every path is absolute and free
\* of "..", so run() uses it as given
Psr4 == << <<NsN, SrcDir>> >>
Psr0 == <<>>
ClassmapDirs == <<VendorDir, SideDir>>
Excludes == {}

\* all_dirs: the PSR-4 paths, then the PSR-0 paths, then the classmap paths
all_dirs(psr4, psr0, classmap_dirs) ==
    [i \in 1..Len(psr4) |-> psr4[i][2]] \o [i \in 1..Len(psr0) |-> psr0[i][2]] \o classmap_dirs

\* a plausible slip: insert() instead of entry().or_insert_with(): the last
\* eligible entry of a symbol wins
RECURSIVE build_classmap_last_wins(_, _, _, _, _)
build_classmap_last_wins(entries, psr4, psr0, classmap_dirs, table) ==
    IF entries = <<>> THEN table
    ELSE LET class == Head(entries)[1]
             path == Head(entries)[2]
         IN  IF is_class_valid(class, path, psr4, psr0, classmap_dirs)
             THEN build_classmap_last_wins(Tail(entries), psr4, psr0, classmap_dirs,
                      [c \in DOMAIN table \cup {class} |-> IF c = class THEN path ELSE table[c]])
             ELSE build_classmap_last_wins(Tail(entries), psr4, psr0, classmap_dirs, table)

\* the loop that fills the BTreeMap `classmap` from walk_result.entries
RECURSIVE build_classmap(_, _, _, _, _)
build_classmap(entries, psr4, psr0, classmap_dirs, table) ==
    IF entries = <<>> THEN table
    ELSE LET class == Head(entries)[1]
             path == Head(entries)[2]
         IN  IF is_class_valid(class, path, psr4, psr0, classmap_dirs) /\ class \notin DOMAIN table
             THEN build_classmap(Tail(entries), psr4, psr0, classmap_dirs,
                      [c \in DOMAIN table \cup {class} |-> IF c = class THEN path ELSE table[c]])
             ELSE build_classmap(Tail(entries), psr4, psr0, classmap_dirs, table)

\* the artifacts run() writes unconditionally, in the order it writes them
Artifacts == <<"autoload_classmap.php", "autoload_psr4.php", "autoload_namespaces.php">>

NoPending == [added |-> {}, edited |-> {}, deleted |-> {}, bumped |-> {}, cache |-> FALSE]

NoPrev == [ran |-> FALSE, exit |-> 0, td |-> FALSE, saved |-> FALSE, classmap_count |-> 0,
           php_files_found |-> 0, cached |-> 0, dirs |-> 0]

NoRun == [fresh |-> FALSE, ran |-> FALSE, exit |-> 0, td |-> FALSE, from |-> "missing",
          loaded |-> DefaultCache,
          walk_skipped |-> FALSE, directories_walked |-> 0, cache_hits |-> 0,
          php_files_found |-> 0, files_scanned |-> 0, classmap |-> <<>>,
          classmap_count |-> 0, statted |-> {}, read |-> {}, trusted |-> {},
          cached |-> 0, dirs |-> 0, saved |-> FALSE, files_written |-> FALSE,
          contents |-> FALSE, written |-> {}, write_files |-> FALSE, staging |-> FALSE,
          artifacts |-> <<>>, write_failed |-> FALSE, since |-> NoPending, prev |-> NoPrev]

\* what the next invocation is compared with: the outcome of a run, without
\* the detail that is observed right after it
Summary(l) ==
    [NoRun EXCEPT !.ran = l.ran, !.exit = l.exit, !.td = l.td, !.saved = l.saved,
                  !.classmap_count = l.classmap_count, !.php_files_found = l.php_files_found,
                  !.cached = l.cached, !.dirs = l.dirs]

\* how the cache file presents itself to load_cache
disk_state(doc) ==
    IF doc.kind # "json" THEN doc.kind
    ELSE IF doc.version # CACHE_VERSION THEN "other_version" ELSE "current"

\* a plausible slip: the cache is saved before the outcome of the writes is looked at
saves_cache_regardless(td, failed) == td

\* save_cache is reached: a cache path is configured and the process has
\* not exited on a failed write
saves_cache(td, failed) == td /\ ~failed

\* run(config).  td: a target_dir is given; wf: write_files; st: a staging
\* suffix is given; wfail: the index of the artifact write that fails (0:
\* none); sv: the outcome of the cache write; ord: the order in which the
\* walker threads (or the cache's hash map) deliver the paths.
\* artifacts: the files this run generates, in the order it writes them.
RunWith(td, wf, st, wfail, sv, ord, artifacts) ==
    /\ runs < MaxRuns
    /\ \E cache \in {IF td THEN load_cache(disk) ELSE DefaultCache} :
       \E wr \in {walk_and_parse(all_dirs(Psr4, Psr0, ClassmapDirs), Excludes, cache, VendorDir, ord)} :
       \E classmap \in {build_classmap(wr.entries, Psr4, Psr0, ClassmapDirs, <<>>)} :
       LET writing == (wf \/ st) /\ td
           failed == writing /\ wfail > 0
           nwritten == IF ~writing THEN 0 ELSE IF failed THEN wfail - 1 ELSE Len(artifacts)
       IN  /\ disk' = IF saves_cache(td, failed) THEN save_cache(disk, wr.new_cache, sv) ELSE disk
           /\ last' = [fresh |-> TRUE,
                       ran |-> TRUE,
                       exit |-> IF failed THEN 1 ELSE 0,
                       td |-> td,
                       from |-> IF td THEN disk_state(disk) ELSE "missing",
                       loaded |-> cache,
                       walk_skipped |-> wr.walk_skipped,
                       directories_walked |-> wr.directories_walked,
                       cache_hits |-> wr.cache_hits,
                       php_files_found |-> wr.php_files_found,
                       files_scanned |-> wr.files_scanned,
                       classmap |-> classmap,
                       classmap_count |-> Cardinality(DOMAIN classmap),
                       statted |-> wr.statted,
                       read |-> wr.read,
                       trusted |-> wr.trusted,
                       cached |-> Cardinality(DOMAIN wr.new_cache.files),
                       dirs |-> Cardinality(DOMAIN wr.new_cache.dir_mtimes),
                       saved |-> saves_cache(td, failed) /\ sv = "ok",
                       files_written |-> writing /\ ~failed,
                       contents |-> ~st /\ ~failed,
                       written |-> {<<artifacts[i], st>> : i \in 1..nwritten},
                       write_files |-> wf,
                       staging |-> st,
                       artifacts |-> artifacts,
                       write_failed |-> failed,
                       since |-> pending,
                       prev |-> [ran |-> last.ran, exit |-> last.exit, td |-> last.td,
                                 saved |-> last.saved,
                                 classmap_count |-> last.classmap_count,
                                 php_files_found |-> last.php_files_found,
                                 cached |-> last.cached,
                                 dirs |-> last.dirs]]
    /\ runs' = runs + 1
    /\ pending' = NoPending
    /\ UNCHANGED <<fs, now, ops, cin, cout, vin, vres, din, dres, min, mres, xin, xres, pin, pres, proc>>

\* run(config) of a configuration without single-file autoload entries and
\* without a suffix
Run(td, wf, st, wfail, sv, ord) == RunWith(td, wf, st, wfail, sv, ord, Artifacts)

-----------------------------------------------------------------------------
(* The environment of run(): the clock, and whoever edits the tree and the *)
(* cache file between two invocations.                                     *)

Tick ==
    /\ runs < MaxRuns
    /\ now < MaxTime
    /\ now' = now + 1
    /\ last' = Summary(last)
    /\ UNCHANGED <<fs, disk, pending, ops, runs, cin, cout, vin, vres, din, dres, min, mres, xin, xres, pin, pres, proc>>

\* creating a directory entry sets the directory's mtime to the clock
AddFile(f, c) ==
    /\ runs < MaxRuns /\ ops < MaxOps
    /\ fs[f].kind = "absent"
    /\ fs' = [fs EXCEPT ![f] = [kind |-> "file", mtime |-> now, content |-> c],
                        ![ParentOf(f)].mtime = now]
    /\ pending' = [pending EXCEPT !.added = @ \cup {f},
                                  !.bumped = IF fs[ParentOf(f)].mtime # now
                                             THEN @ \cup {f} ELSE @ \ {f}]
    /\ ops' = ops + 1
    /\ last' = Summary(last)
    /\ UNCHANGED <<now, disk, runs, cin, cout, vin, vres, din, dres, min, mres, xin, xres, pin, pres, proc>>

\* rewriting a file in place sets the file's mtime, not the directory's
EditFile(f, c) ==
    /\ runs < MaxRuns /\ ops < MaxOps
    /\ fs[f].kind = "file" /\ fs[f].content \in ContentsOf(f) \ {c}
    /\ fs' = [fs EXCEPT ![f] = [kind |-> "file", mtime |-> now, content |-> c]]
    /\ pending' = [pending EXCEPT !.edited = @ \cup {f}]
    /\ ops' = ops + 1
    /\ last' = Summary(last)
    /\ UNCHANGED <<now, disk, runs, cin, cout, vin, vres, din, dres, min, mres, xin, xres, pin, pres, proc>>

DeleteFile(f) ==
    /\ runs < MaxRuns /\ ops < MaxOps
    /\ fs[f].kind = "file"
    /\ fs' = [fs EXCEPT ![f] = Absent, ![ParentOf(f)].mtime = now]
    /\ pending' = [pending EXCEPT !.deleted = @ \cup {f},
                                  !.added = @ \ {f}, !.edited = @ \ {f}, !.bumped = @ \ {f}]
    /\ ops' = ops + 1
    /\ last' = Summary(last)
    /\ UNCHANGED <<now, disk, runs, cin, cout, vin, vres, din, dres, min, mres, xin, xres, pin, pres, proc>>

\* the cache file is removed, damaged, or replaced by one of another schema
\* version
TamperCache(how) ==
    /\ runs < MaxRuns /\ ops < MaxOps
    /\ how = "version" => disk.kind = "json"
    /\ disk' = CASE how = "remove"  -> NoFile
                 [] how = "damage"  -> Garbage
                 [] how = "version" -> [disk EXCEPT !.version = CACHE_VERSION - 1]
    /\ disk' # disk
    /\ pending' = [pending EXCEPT !.cache = TRUE]
    /\ ops' = ops + 1
    /\ last' = Summary(last)
    /\ UNCHANGED <<fs, now, runs, cin, cout, vin, vres, din, dres, min, mres, xin, xres, pin, pres, proc>>

\* The orders in which the parallel walk can deliver the paths: every pair of
\* files is delivered in both relative orders.
Orders == {<<FileA, FileV, FileW>>, <<FileV, FileW, FileA>>, <<FileW, FileA, FileV>>}

\* the files that come and go between runs
Volatile == {FileA}

InitTree(present) ==
    [p \in Paths |->
        IF p \in Dirs THEN [kind |-> "dir", mtime |-> 1, content |-> "none"]
        ELSE IF p \in present
             THEN [kind |-> "file", mtime |-> 1, content |-> IF p = FileA THEN "A" ELSE "B"]
        ELSE Absent]

\* the variables of the function-level specifications, at rest
Idle == /\ cin = <<>> /\ cout = <<>>
        /\ vin = <<>> /\ vres = <<>>
        /\ din = <<>> /\ dres = <<>>
        /\ min = <<>> /\ mres = <<>>
        /\ xin = <<>> /\ xres = <<>> /\ pin = <<>> /\ pres = <<>> /\ proc = <<>>

\* the variables of the run-level specification, at rest
RunIdle == /\ now = 1 /\ pending = NoPending /\ ops = 0 /\ last = NoRun /\ runs = 0

Init ==
    /\ \E present \in SUBSET Files : fs = InitTree(present)
    /\ disk = NoFile
    /\ RunIdle
    /\ Idle

Next ==
    \/ \E td \in BOOLEAN, sv \in {"ok", "unopened"}, ord \in Orders :
          /\ ~td => sv = "ok"
          /\ Run(td, TRUE, FALSE, 0, sv, ord)
    \/ Tick
    \/ \E f \in Volatile : \E c \in CreatedAs(f) : AddFile(f, c)
    \/ \E f \in Files : \E c \in ContentsOf(f) : EditFile(f, c)
    \/ \E f \in Volatile : DeleteFile(f)
    \/ \E how \in {"remove", "damage", "version"} : TamperCache(how)

Spec == Init /\ [][Next]_vars

-----------------------------------------------------------------------------
(* Properties of run().  They are read in the state right after an         *)
(* invocation (last.fresh), when fs is still the tree that invocation saw; *)
(* last.since is what happened since the invocation before it, last.prev.  *)

\* the path components of p
RECURSIVE components(_)
components(p) ==
    IF p = <<>> THEN <<>>
    ELSE IF Head(p) = "/" THEN components(Tail(p))
    ELSE LET n == IF \E i \in 1..Len(p) : p[i] = "/"
                  THEN (CHOOSE i \in 1..Len(p) : p[i] = "/" /\ \A j \in 1..(i-1) : p[j] # "/") - 1
                  ELSE Len(p)
         IN  <<SubSeq(p, 1, n)>> \o components(SubSeq(p, n + 1, Len(p)))

\* path p lies inside the directory tree rooted at d
beneath(p, d) ==
    /\ Len(components(d)) < Len(components(p))
    /\ SubSeq(components(p), 1, Len(components(d))) = components(d)

\* the symbols of f's current text that the configured mappings admit
eligible_symbols(f) ==
    {c \in Range(extract_php_symbols(fs[f].content)) :
        is_class_valid(c, f, Psr4, Psr0, ClassmapDirs)}

\* the table agrees with f's current text: every eligible symbol of the text
\* is in the table, and the table attributes to f no symbol the text lacks
reflects(f) ==
    /\ eligible_symbols(f) \subseteq DOMAIN last.classmap
    /\ \A c \in DOMAIN last.classmap : last.classmap[c] = f => c \in eligible_symbols(f)

\* two successful invocations with a target_dir, the first of which wrote
\* its cache file
warm == /\ last.fresh /\ last.td /\ last.exit = 0
        /\ last.prev.ran /\ last.prev.td /\ last.prev.exit = 0 /\ last.prev.saved

C2_AsStated ==
    last.fresh /\ last.prev.ran =>
        \A f \in last.since.added :
            can_read(f) /\ eligible_symbols(f) # {} =>
                ~last.walk_skipped /\ eligible_symbols(f) \subseteq DOMAIN last.classmap

\* C2: a readable file with an eligible symbol, added under a watched
\* directory between two invocations so that the directory's mtime in whole
\* seconds changes, makes the second invocation walk (walk_skipped = false)
\* and its eligible symbols appear in the table.
C2_NewFileDetected ==
    last.fresh /\ last.prev.ran =>
        \A f \in last.since.bumped :
            can_read(f) /\ eligible_symbols(f) # {} =>
                ~last.walk_skipped /\ eligible_symbols(f) \subseteq DOMAIN last.classmap

C2_Witness ==
    /\ warm /\ last.prev.cached > 0
    /\ FileA \in last.since.bumped /\ can_read(FileA)
    /\ ~last.walk_skipped /\ FileA \in last.read
    /\ ClassA \in DOMAIN last.classmap /\ last.classmap[ClassA] = FileA
    /\ last.classmap_count = last.prev.classmap_count + 1

C4_AsStated ==
    last.fresh /\ last.walk_skipped =>
        \A f \in DOMAIN last.loaded.files :
            /\ f \in last.trusted => beneath(f, VendorDir)
            /\ ~beneath(f, VendorDir) =>
                  /\ f \in last.statted
                  /\ last.loaded.files[f].mtime # get_mtime(f) /\ can_read(f) => f \in last.read

\* the divergence behind C4: a cached file in a directory beside the vendor
\* directory, rewritten at a later second, is reused without a stat and the
\* table keeps the symbols it no longer declares
C4_Witness ==
    /\ last.fresh /\ last.walk_skipped
    /\ FileW \in last.since.edited /\ ~beneath(FileW, VendorDir)
    /\ last.loaded.files[FileW].mtime # get_mtime(FileW)
    /\ FileW \in last.trusted /\ FileW \notin last.statted /\ FileW \notin last.read
    /\ ~reflects(FileW)

\* C6: when the cache file is missing, unreadable, undecodable or of a version
\* other than CACHE_VERSION, the invocation completes, load_cache having
\* returned a cache without files and directory mtimes, and it walks
\* (walk_skipped = false) with cache_hits = 0.
C6_UnusableCacheForcesFullWalk ==
    last.fresh /\ last.td /\ last.from \in {"missing", "garbage", "other_version"} =>
        /\ last.exit = 0
        /\ DOMAIN last.loaded.files = {} /\ DOMAIN last.loaded.dir_mtimes = {}
        /\ ~last.walk_skipped
        /\ last.cache_hits = 0

C6_Witness ==
    /\ last.fresh /\ last.td /\ last.from = "other_version"
    /\ last.prev.ran /\ last.prev.saved /\ last.prev.cached > 0
    /\ last.since = [NoPending EXCEPT !.cache = TRUE]
    /\ ~last.walk_skipped /\ last.cache_hits = 0
    /\ last.php_files_found = last.prev.cached

-----------------------------------------------------------------------------
(* dirs_unchanged on its own: every tree, cache and list of roots of a     *)
(* small universe.                                                         *)

\* what a root path can be on disk: nothing, a regular file, a directory, or
\* something that is neither (a socket, a device)
RootStates ==
    {Absent, [kind |-> "file", mtime |-> 1, content |-> "none"],
     [kind |-> "other", mtime |-> 1, content |-> "none"]}
    \cup {[kind |-> "dir", mtime |-> t, content |-> "none"] : t \in 0..MaxTime}

DirTrees ==
    {[p \in Paths |-> IF p = SrcDir THEN a ELSE IF p = VendorDir THEN b ELSE Absent] :
        a \in RootStates, b \in RootStates}

\* the caches handed to dirs_unchanged: with or without a file record, and
\* any record of the two roots' mtimes
DirCaches ==
    {[version |-> CACHE_VERSION, files |-> f, dir_mtimes |-> m] :
        f \in {<<>>, [p \in {FileA} |-> [mtime |-> 1, symbols |-> <<ClassA>>]]},
        m \in UNION {[D -> 0..MaxTime] : D \in SUBSET {SrcDir, VendorDir}}}

RootLists == {<<>>, <<SrcDir>>, <<VendorDir>>, <<SrcDir, VendorDir>>}

CheckDirs(cache, dirs) ==
    /\ din = <<>>
    /\ din' = <<cache, dirs>>
    /\ dres' = <<dirs_unchanged(cache, dirs),
                 walk_and_parse(dirs, Excludes, cache, VendorDir,
                                <<FileA, FileV, FileW>>).walk_skipped>>
    /\ UNCHANGED <<fs, now, disk, pending, ops, last, runs, cin, cout, vin, vres, min, mres, xin, xres, pin, pres, proc>>

InitDirs ==
    /\ fs \in DirTrees
    /\ disk = NoFile
    /\ RunIdle
    /\ Idle

NextDirs == \E cache \in DirCaches, dirs \in RootLists : CheckDirs(cache, dirs)

SpecDirs == InitDirs /\ [][NextDirs]_vars

\* what C5 requires of a cache and a list of roots
unchanged_conditions(cache, dirs) ==
    /\ DOMAIN cache.files # {}
    /\ DOMAIN cache.dir_mtimes # {}
    /\ \A i \in 1..Len(dirs) : is_dir(dirs[i]) => dirs[i] \in DOMAIN cache.dir_mtimes
    /\ \A d \in DOMAIN cache.dir_mtimes :
          cache.dir_mtimes[d] = get_mtime(d) /\ cache.dir_mtimes[d] # 0

\* C5: dirs_unchanged returns true only if the cache holds a file record and
\* a directory mtime, every root that is a directory on disk has a recorded
\* mtime, and every recorded directory mtime equals the current one and is
\* not zero; whenever it returns false the full walk is taken.
C5_DirsUnchangedIsConservative ==
    din # <<>> =>
        /\ dres[1] => unchanged_conditions(din[1], din[2])
        /\ ~dres[1] => ~dres[2]

C5_Witness ==
    /\ din # <<>> /\ dres = <<TRUE, TRUE>>
    /\ din[2] = <<SrcDir, VendorDir>>
    /\ DOMAIN din[1].dir_mtimes = {SrcDir, VendorDir}
    /\ fs[SrcDir].mtime # fs[VendorDir].mtime

-----------------------------------------------------------------------------
(* save_cache followed by load_cache, for every CacheData of a small       *)
(* universe.                                                               *)

CachedFiles == [mtime : 0..MaxTime, symbols : {<<>>, <<ClassA>>, <<ClassA, ClassB>>}]

CacheDatas ==
    {[version |-> v, files |-> f, dir_mtimes |-> m] :
        v \in {CACHE_VERSION - 1, CACHE_VERSION, CACHE_VERSION + 1},
        f \in UNION {[D -> CachedFiles] : D \in SUBSET {FileA, FileV}},
        m \in UNION {[D -> 0..MaxTime] : D \in SUBSET {SrcDir}}}

\* save_cache(cache_path, &cin[1]), with the outcome of the write
Save(outcome) ==
    /\ Len(cin) = 1
    /\ disk' = save_cache(disk, cin[1], outcome)
    /\ cin' = cin \o <<outcome>>
    /\ UNCHANGED <<fs, now, pending, ops, last, runs, cout, vin, vres, din, dres, min, mres, xin, xres, pin, pres, proc>>

\* load_cache(cache_path)
Load ==
    /\ Len(cin) = 2 /\ cout = <<>>
    /\ cout' = <<load_cache(disk)>>
    /\ UNCHANGED <<fs, now, disk, pending, ops, last, runs, cin, vin, vres, din, dres, min, mres, xin, xres, pin, pres, proc>>

InitCache ==
    /\ fs = InitTree({})
    /\ disk = NoFile
    /\ RunIdle
    /\ cin \in {<<c>> : c \in CacheDatas}
    /\ cout = <<>> /\ vin = <<>> /\ vres = <<>> /\ din = <<>> /\ dres = <<>>
    /\ min = <<>> /\ mres = <<>>
    /\ xin = <<>> /\ xres = <<>> /\ pin = <<>> /\ pres = <<>> /\ proc = <<>>

NextCache == (\E outcome \in SaveOutcomes : Save(outcome)) \/ Load

SpecCache == InitCache /\ [][NextCache]_vars

\* C7: a CacheData written by save_cache and read back by load_cache comes
\* back with the same files and dir_mtimes maps when its version is
\* CACHE_VERSION, and as a cache without files and directory mtimes when its
\* version is any other number.
C7_CacheRoundTrip ==
    cout # <<>> /\ cin[2] = "ok" =>
        IF cin[1].version = CACHE_VERSION
        THEN cout[1].files = cin[1].files /\ cout[1].dir_mtimes = cin[1].dir_mtimes
        ELSE DOMAIN cout[1].files = {} /\ DOMAIN cout[1].dir_mtimes = {}

C7_Witness ==
    /\ cout # <<>> /\ cin[2] = "ok" /\ cin[1].version = CACHE_VERSION
    /\ DOMAIN cin[1].files = {FileA, FileV} /\ DOMAIN cin[1].dir_mtimes = {SrcDir}
    /\ cin[1].files[FileA].symbols = <<ClassA, ClassB>>
    /\ cout[1].files = cin[1].files

-----------------------------------------------------------------------------
(* The merge loop of run() on its own: every entry stream the walker can   *)
(* produce from the fixture files, each holding one of the fixture texts.  *)

FileTexts == {"A", "AB", "B"}

\* the files a walk delivers, each once, in any order
Deliveries == {o \in SeqUpTo(Files, Cardinality(Files)) :
                  \A i, j \in 1..Len(o) : o[i] = o[j] => i = j}

Streams ==
    UNION {{Flatten([i \in 1..Len(o) |-> pairs(extract_php_symbols(t[i]), o[i])]) :
               t \in [1..Len(o) -> FileTexts]} : o \in Deliveries}

Merge ==
    /\ mres = <<>>
    /\ mres' = <<build_classmap(min, Psr4, Psr0, ClassmapDirs, <<>>)>>
    /\ UNCHANGED <<fs, now, disk, pending, ops, last, runs, cin, cout, vin, vres, din, dres, min, xin, xres, pin, pres, proc>>

InitMerge ==
    /\ fs = InitTree({})
    /\ disk = NoFile
    /\ RunIdle
    /\ min \in Streams
    /\ mres = <<>>
    /\ cin = <<>> /\ cout = <<>> /\ vin = <<>> /\ vres = <<>> /\ din = <<>> /\ dres = <<>>
    /\ xin = <<>> /\ xres = <<>> /\ pin = <<>> /\ pres = <<>> /\ proc = <<>>

NextMerge == Merge

SpecMerge == InitMerge /\ [][NextMerge]_vars

\* the positions of the stream's entries for symbol c
entries_of(c) == {i \in 1..Len(min) : min[i][1] = c}

\* those of them the configured mappings admit
eligible_entries_of(c) ==
    {i \in entries_of(c) : is_class_valid(c, min[i][2], Psr4, Psr0, ClassmapDirs)}

first_of(I) == CHOOSE i \in I : \A j \in I : i <= j

\* C8 as stated: the table maps each of its symbols to the file of the first
\* entry for that symbol in the stream.
C8_AsStated ==
    mres # <<>> =>
        \A c \in DOMAIN mres[1] : mres[1][c] = min[first_of(entries_of(c))][2]

\* C8: the table holds exactly the symbols that have an entry the mappings
\* admit, and maps each to one file: the file of the first such entry in the
\* stream; a later entry for the same symbol never replaces it.
C8_FirstEligibleEntryWins ==
    mres # <<>> =>
        /\ DOMAIN mres[1] = {min[i][1] : i \in {j \in 1..Len(min) : eligible_entries_of(min[j][1]) # {}}}
        /\ \A c \in DOMAIN mres[1] : mres[1][c] = min[first_of(eligible_entries_of(c))][2]

C8_Witness ==
    /\ mres # <<>> /\ Len(min) >= 3
    /\ min[1] = <<ClassB, FileA>> /\ min[2] = <<ClassB, FileV>> /\ min[3] = <<ClassB, FileW>>
    /\ mres[1][ClassB] = FileV

-----------------------------------------------------------------------------
(* is_class_valid on its own: symbols, files and mapping lists of a small  *)
(* universe with nested base paths.                                        *)

TDir == SrcDir \o <<"/", "T">>
LibDir == <<"/", "l">>
FileTA == TDir \o <<"/", "A">> \o DotPhp
FileLA == LibDir \o <<"/", "N", "/", "A">> \o DotPhp
FileLBC == LibDir \o <<"/", "N", "/", "B", "/", "C">> \o DotPhp

ValidFiles == {FileA, FileTA, FileLA, FileLBC}
ValidClasses == {ClassA, NsN \o <<"T", "\\", "A">>, <<"A">>, NsN \o <<"B", "_", "C">>}

Psr4Maps == {<<NsN, SrcDir>>, <<NsN, TDir>>, <<<<>>, SrcDir>>, <<<<>>, TDir>>}
Psr0Lists == {<<>>, << <<NsN, LibDir>> >>, << <<NsN, SrcDir>> >>,
              << <<NsN, SrcDir>>, <<NsN, TDir>> >>}
ClassmapLists == {<<>>, <<TDir>>, <<TDir \o Slash>>, <<FileLA>>}

Validate ==
    /\ vres = <<>>
    /\ vres' = <<is_class_valid(vin.class, vin.file, vin.psr4, vin.psr0, vin.classmap_dirs)>>
    /\ UNCHANGED <<fs, now, disk, pending, ops, last, runs, cin, cout, vin, din, dres, min, mres, xin, xres, pin, pres, proc>>

InitValid ==
    /\ fs = InitTree({})
    /\ disk = NoFile
    /\ RunIdle
    /\ vin \in [class : ValidClasses, file : ValidFiles, psr4 : SeqUpTo(Psr4Maps, MaxMaps),
                psr0 : Psr0Lists, classmap_dirs : ClassmapLists]
    /\ vres = <<>>
    /\ cin = <<>> /\ cout = <<>> /\ din = <<>> /\ dres = <<>> /\ min = <<>> /\ mres = <<>>
    /\ xin = <<>> /\ xres = <<>> /\ pin = <<>> /\ pres = <<>> /\ proc = <<>>

NextValid == Validate

SpecValid == InitValid /\ [][NextValid]_vars

\* the mappings of a list whose base path is a directory above the file
matching(maps, file) == {i \in 1..Len(maps) : beneath(file, maps[i][2])}

\* of those, the one with the longest base path (the first listed, if several
\* are as long)
longest(maps, file) ==
    CHOOSE i \in matching(maps, file) :
        \A j \in matching(maps, file) :
            \/ Len(maps[j][2]) < Len(maps[i][2])
            \/ Len(maps[j][2]) = Len(maps[i][2]) /\ i <= j

\* the file is a classmap path or lies beneath one
in_classmap(file, classmap_dirs) ==
    \E i \in 1..Len(classmap_dirs) : file = classmap_dirs[i] \/ beneath(file, classmap_dirs[i])

\* C9: is_class_valid returns true for every symbol whose file lies beneath a
\* classmap directory, whether or not a PSR-4 or PSR-0 mapping covers the
\* file and whether or not the symbol matches the file's name.
C9_ClassmapDirAlwaysValid ==
    vres # <<>> /\ (\E i \in 1..Len(vin.classmap_dirs) : beneath(vin.file, vin.classmap_dirs[i]))
        => vres[1]

C9_Witness ==
    /\ vres = <<TRUE>>
    /\ vin.file = FileTA /\ vin.classmap_dirs = <<TDir>>
    /\ matching(vin.psr4, vin.file) # {}
    /\ \A i \in matching(vin.psr4, vin.file) :
          ~is_psr4_compliant(vin.class, vin.psr4[i][1], vin.psr4[i][2], vin.file)

\* C10: for a file outside every classmap directory, is_class_valid is the
\* PSR-4 compliance of the symbol under the PSR-4 mapping with the longest
\* base path above the file; only when no PSR-4 base path is above the file
\* is it the PSR-0 compliance under the PSR-0 mapping chosen the same way, and
\* true when no mapping is above the file at all.
C10_LongestPsr4ThenPsr0 ==
    vres # <<>> /\ ~in_classmap(vin.file, vin.classmap_dirs) =>
        vres[1] =
            IF matching(vin.psr4, vin.file) # {}
            THEN is_psr4_compliant(vin.class, vin.psr4[longest(vin.psr4, vin.file)][1],
                                   vin.psr4[longest(vin.psr4, vin.file)][2], vin.file)
            ELSE IF matching(vin.psr0, vin.file) # {}
            THEN is_psr0_compliant(vin.class, vin.psr0[longest(vin.psr0, vin.file)][2], vin.file)
            ELSE TRUE

C10_Witness ==
    /\ vres = <<FALSE>> /\ ~in_classmap(vin.file, vin.classmap_dirs)
    /\ Cardinality(matching(vin.psr4, vin.file)) = 2
    /\ longest(vin.psr4, vin.file) = 2
    /\ matching(vin.psr0, vin.file) # {}
    /\ is_psr0_compliant(vin.class, vin.psr0[longest(vin.psr0, vin.file)][2], vin.file)

\* C11: is_class_valid returns true for a symbol whose file is under no
\* classmap directory and under the base path of no PSR-4 and no PSR-0
\* mapping.
C11_UnmappedFileIsValid ==
    /\ vres # <<>>
    /\ ~in_classmap(vin.file, vin.classmap_dirs)
    /\ matching(vin.psr4, vin.file) = {}
    /\ matching(vin.psr0, vin.file) = {}
    => vres[1]

C11_Witness ==
    /\ vres = <<TRUE>>
    /\ vin.file = FileLA /\ vin.class = NsN \o <<"B", "_", "C">>
    /\ Len(vin.psr4) = MaxMaps /\ vin.psr0 # <<>> /\ vin.classmap_dirs # <<>>
    /\ ~in_classmap(vin.file, vin.classmap_dirs)
    /\ matching(vin.psr4, vin.file) = {} /\ matching(vin.psr0, vin.file) = {}

-----------------------------------------------------------------------------
(* is_psr4_compliant and is_psr0_compliant on their own, and is_class_valid *)
(* under a single PSR-4 mapping: names, prefixes, base paths (with and      *)
(* without a trailing separator) and files that lie beneath the base.       *)

FileLXBC == LibDir \o <<"/", "N", "_", "X", "/", "B", "/", "C">> \o DotPhp

ComplyClasses == {ClassA, <<"M", "\\", "A">>, <<"X", "Y", "A">>, <<"A">>, <<"N">>,
                  NsN \o <<"T", "\\", "A">>, NsN \o <<"B", "_", "C">>,
                  NsN \o <<"B", "\\", "C">>, <<"N", "_", "X", "\\", "B", "_", "C">>,
                  <<"N", "_", "B", "_", "C">>}
ComplyPrefixes == {<<>>, NsN, NsN \o <<"T", "\\">>}
ComplyBases == {SrcDir, SrcDir \o Slash, LibDir}
ComplyFiles == {FileA, FileTA, FileLA, FileLBC, FileLXBC}

Comply4 ==
    /\ vres = <<>>
    /\ vres' = <<"psr4",
                 is_psr4_compliant(vin.class, vin.ns_prefix, vin.base_path, vin.file_path),
                 is_class_valid(vin.class, vin.file_path,
                                << <<vin.ns_prefix, vin.base_path>> >>, <<>>, <<>>)>>
    /\ UNCHANGED <<fs, now, disk, pending, ops, last, runs, cin, cout, vin, din, dres, min, mres, xin, xres, pin, pres, proc>>

Comply0 ==
    /\ vres = <<>>
    /\ vres' = <<"psr0", is_psr0_compliant(vin.class, vin.base_path, vin.file_path)>>
    /\ UNCHANGED <<fs, now, disk, pending, ops, last, runs, cin, cout, vin, din, dres, min, mres, xin, xres, pin, pres, proc>>

InitComply ==
    /\ fs = InitTree({})
    /\ disk = NoFile
    /\ RunIdle
    /\ vin \in {r \in [class : ComplyClasses, ns_prefix : ComplyPrefixes,
                       base_path : ComplyBases, file_path : ComplyFiles] :
                  beneath(r.file_path, r.base_path)}
    /\ vres = <<>>
    /\ cin = <<>> /\ cout = <<>> /\ din = <<>> /\ dres = <<>> /\ min = <<>> /\ mres = <<>>
    /\ xin = <<>> /\ xres = <<>> /\ pin = <<>> /\ pres = <<>> /\ proc = <<>>

NextComply == Comply4 \/ Comply0

SpecComply == InitComply /\ [][NextComply]_vars

\* path components joined by the path separator
RECURSIVE join(_)
join(comps) ==
    IF comps = <<>> THEN <<>>
    ELSE IF Len(comps) = 1 THEN comps[1]
    ELSE comps[1] \o Slash \o join(Tail(comps))

\* the path of file relative to the directory base, ".php" stripped
rel_path(base, file) ==
    strip_suffix_or(join(SubSeq(components(file), Len(components(base)) + 1,
                                Len(components(file)))), DotPhp)

\* s without its first n characters
drop(s, n) == IF n >= Len(s) THEN <<>> ELSE SubSeq(s, n + 1, Len(s))

\* the part of a fully-qualified name after its last namespace separator
bare_name(class) == drop(class, rfind(class, "\\"))

\* the file's name without directories and without ".php"
base_name(file) == strip_suffix_or(components(file)[Len(components(file))], DotPhp)

\* C12: is_psr4_compliant is true exactly when the name without its first
\* len(prefix) characters (whatever those characters are), with namespace
\* separators turned into path separators, equals the file's path relative
\* to the base directory with ".php" stripped.
C12_Psr4PositionalStrip ==
    vres # <<>> /\ vres[1] = "psr4" =>
        vres[2] = (replace(drop(vin.class, Len(vin.ns_prefix)), "\\", "/")
                     = rel_path(vin.base_path, vin.file_path))

C12_Witness ==
    /\ vres # <<>> /\ vres[1] = "psr4" /\ vres[2]
    /\ vin.ns_prefix = NsN /\ ~starts_with(vin.class, vin.ns_prefix)
    /\ vin.base_path = SrcDir \o Slash

\* C13 as stated: under a PSR-4 mapping a symbol whose bare name differs from
\* the base name of its file is never eligible, and the symbol that matches
\* the file's relative path is.
C13_AsStated ==
    vres # <<>> /\ vres[1] = "psr4" =>
        /\ bare_name(vin.class) # base_name(vin.file_path) => ~vres[3]
        /\ vin.class = vin.ns_prefix \o replace(rel_path(vin.base_path, vin.file_path), "/", "\\")
              => vres[3]

\* C13: under a PSR-4 mapping a symbol that begins with the mapping's prefix
\* and whose bare name differs from the base name of its file is never
\* eligible, and the symbol that matches the file's relative path is.
C13_SecondaryClassExcluded ==
    vres # <<>> /\ vres[1] = "psr4" =>
        /\ starts_with(vin.class, vin.ns_prefix)
             /\ bare_name(vin.class) # base_name(vin.file_path) => ~vres[3]
        /\ vin.class = vin.ns_prefix \o replace(rel_path(vin.base_path, vin.file_path), "/", "\\")
              => vres[3]

C13_Witness ==
    /\ vres # <<>> /\ vres[1] = "psr4" /\ ~vres[3]
    /\ vin.ns_prefix = NsN /\ vin.class = NsN \o <<"B", "\\", "C">>
    /\ vin.file_path = FileA

\* the path PSR-0 expects for a name: every namespace separator is a path
\* separator, and so is every underscore after the last namespace separator
psr0_expected(class) ==
    [i \in 1..Len(class) |->
        IF class[i] = "\\" THEN "/"
        ELSE IF class[i] = "_" /\ \A j \in (i + 1)..Len(class) : class[j] # "\\" THEN "/"
        ELSE class[i]]

\* C14: is_psr0_compliant is true exactly when the name, with the separators
\* of its namespace part and the underscores of its bare class name (only)
\* turned into path separators, equals the file's path relative to the base
\* directory with the extension stripped.
C14_Psr0UnderscoreRule ==
    vres # <<>> /\ vres[1] = "psr0" =>
        vres[2] = (psr0_expected(vin.class) = rel_path(vin.base_path, vin.file_path))

C14_Witness ==
    /\ vres # <<>> /\ vres[1] = "psr0" /\ vres[2]
    /\ vin.class = <<"N", "_", "X", "\\", "B", "_", "C">>
    /\ vin.file_path = FileLXBC

-----------------------------------------------------------------------------
(* run() under exclusion patterns: a source directory with a subdirectory, *)
(* roots that are directories or single files, invoked twice on an         *)
(* unchanged tree (a full walk, then the fast path).                       *)

ExcludeFiles == {FileA, FileTA}
ExcludeTrees ==
    {[p \in {SrcDir, TDir} \cup ExcludeFiles |->
        IF p \in ExcludeFiles THEN [kind |-> "file", mtime |-> 1, content |-> t[p]]
        ELSE [kind |-> "dir", mtime |-> 1, content |-> "none"]] :
     t \in [ExcludeFiles -> {"A", "B"}]}

\* autoload.classmap: directories and single files
ExcludeRoots == {<<SrcDir>>, <<TDir>>, <<SrcDir, FileTA>>, <<FileTA, SrcDir>>, <<FileA, TDir>>}

\* exclude_from_classmap, each pattern given by the path text it is built from
ExcludePatterns == {{}, {TDir}, {<<"/", "T">>}, {FileA}, {TDir, FileA}}

ExcludeOrders == {<<FileA, FileTA>>, <<FileTA, FileA>>}

\* run(config) with a target_dir, the roots and patterns of xin, no PSR
\* mappings, and a cache write that succeeds
RunExclude(ord) ==
    /\ runs < MaxRuns
    /\ \E cache \in {load_cache(disk)} :
       \E wr \in {walk_and_parse(all_dirs(<<>>, <<>>, xin.classmap), xin.excludes, cache,
                                 VendorDir, ord)} :
          /\ disk' = save_cache(disk, wr.new_cache, "ok")
          /\ xres' = Append(xres, [walk_skipped |-> wr.walk_skipped,
                                   classmap |-> build_classmap(wr.entries, <<>>, <<>>,
                                                               xin.classmap, <<>>)])
    /\ runs' = runs + 1
    /\ UNCHANGED <<fs, now, pending, ops, last, cin, cout, vin, vres, din, dres, min, mres,
                   xin, pin, pres, proc>>

InitExclude ==
    /\ fs \in ExcludeTrees
    /\ disk = NoFile
    /\ RunIdle
    /\ xin \in [classmap : ExcludeRoots, excludes : ExcludePatterns]
    /\ xres = <<>>
    /\ cin = <<>> /\ cout = <<>> /\ vin = <<>> /\ vres = <<>> /\ din = <<>> /\ dres = <<>>
    /\ min = <<>> /\ mres = <<>> /\ pin = <<>> /\ pres = <<>> /\ proc = <<>>

NextExclude == \E ord \in ExcludeOrders : RunExclude(ord)

SpecExclude == InitExclude /\ [][NextExclude]_vars

\* the .php files the configured roots cover
covered_files ==
    {f \in DOMAIN fs : /\ is_file(f) /\ has_php_extension(f)
                       /\ \E i \in 1..Len(xin.classmap) :
                             f = xin.classmap[i] \/ beneath(f, xin.classmap[i])}

\* those whose path matches no exclusion pattern
unexcluded_files == {f \in covered_files : ~excluded(xin.excludes, f)}

\* C15: after every invocation, in full mode and in fast-path mode, the table
\* holds exactly the symbols declared in the covered files that match no
\* exclusion pattern, each mapped to such a file that declares it; no entry
\* comes from a file that matches a pattern.
C15_AsStated ==
    \A i \in 1..Len(xres) :
        /\ DOMAIN xres[i].classmap
             = UNION {Range(extract_php_symbols(fs[f].content)) : f \in unexcluded_files}
        /\ \A c \in DOMAIN xres[i].classmap :
             /\ xres[i].classmap[c] \in unexcluded_files
             /\ c \in Range(extract_php_symbols(fs[xres[i].classmap[c]].content))

\* a single-file root that matches a pattern is in the table after the full
\* walk and after the fast path
C15_Witness ==
    /\ Len(xres) = 2 /\ ~xres[1].walk_skipped /\ xres[2].walk_skipped
    /\ xin.excludes = {TDir} /\ excluded(xin.excludes, FileTA)
    /\ \A i \in 1..2 : \E c \in DOMAIN xres[i].classmap : xres[i].classmap[c] = FileTA

\* the same holds when every root is a directory
C15_DirectoryRootsOnly ==
    (\A i \in 1..Len(xin.classmap) : is_dir(xin.classmap[i])) => C15_AsStated

-----------------------------------------------------------------------------
(* Symbol parser (classmap/parser.rs): a single forward scan over the      *)
(* bytes of a source text.  A text is a sequence of one-character strings; *)
(* positions count from 1, and a position past the end is Len(bytes) + 1.  *)

\* the characters of a string literal, in order
chars(s) == [i \in 1..Len(s) |-> SubSeq(s, i, i)]

Letters == Range(chars("abcdefghijklmnopqrstuvwxyzABCDEFGHIJKLMNOPQRSTUVWXYZ"))
Digits == Range(chars("0123456789"))

\* u8::is_ascii_alphanumeric() || b == b'_'
IdentBytes == Letters \cup Digits \cup {"_"}

Whitespace == {" ", "\t", "\n", "\r"}

PHP_KEYWORD_LIST ==
    {"abstract", "and", "array", "as", "break", "callable", "case", "catch",
     "class", "clone", "const", "continue", "declare", "default", "do",
     "echo", "else", "elseif", "empty", "enddeclare", "endfor", "endforeach",
     "endif", "endswitch", "endwhile", "enum", "eval", "exit", "extends",
     "false", "final", "finally", "fn", "for", "foreach", "function",
     "global", "goto", "if", "implements", "include", "include_once",
     "instanceof", "insteadof", "interface", "isset", "list", "match",
     "namespace", "new", "null", "or", "print", "private", "protected",
     "public", "readonly", "require", "require_once", "return", "self",
     "static", "switch", "throw", "trait", "true", "try", "unset", "use",
     "var", "while", "xor", "yield"}

PHP_KEYWORDS == {chars(w) : w \in PHP_KEYWORD_LIST}

\* `while pos < len && class(bytes[pos]) { pos += 1 }`: the first position
\* from pos on whose byte is outside S
skip_while(bytes, pos, S) ==
    IF \E i \in pos..Len(bytes) : bytes[i] \notin S
    THEN CHOOSE i \in pos..Len(bytes) :
            bytes[i] \notin S /\ \A j \in pos..(i - 1) : bytes[j] \in S
    ELSE IF pos > Len(bytes) THEN pos ELSE Len(bytes) + 1

\* `while pos < len && bytes[pos] != c { pos += 1 }`
skip_until(bytes, pos, c) ==
    IF \E i \in pos..Len(bytes) : bytes[i] = c
    THEN CHOOSE i \in pos..Len(bytes) : bytes[i] = c /\ \A j \in pos..(i - 1) : bytes[j] # c
    ELSE IF pos > Len(bytes) THEN pos ELSE Len(bytes) + 1

skip_whitespace(bytes, pos) == skip_while(bytes, pos, Whitespace)

\* read_identifier: the position after the identifier that starts at pos
read_identifier(bytes, pos) == skip_while(bytes, pos, IdentBytes)

\* read_namespace_name: <<start, end>> of the name, after leading whitespace
read_namespace_name(bytes, pos) ==
    <<skip_whitespace(bytes, pos),
      skip_while(bytes, skip_whitespace(bytes, pos), IdentBytes \cup {"\\"})>>

\* bytes[from..to), positions from 1
slice(bytes, from, to) == SubSeq(bytes, from, to - 1)

\* the block comment opened at pos: the position the scan resumes at
skip_block_comment(bytes, pos) ==
    LET len == Len(bytes)
        closers == {q \in (pos + 2)..(len - 1) : bytes[q] = "*" /\ bytes[q + 1] = "/"}
        after == (CHOOSE q \in closers : \A r \in closers : q <= r) + 2
    IN  IF closers = {} THEN len + 1
        ELSE IF after >= len THEN len + 1
        ELSE after

\* the attribute block "#[" whose body starts at pos, with `depth` brackets open
RECURSIVE skip_attribute(_, _, _)
skip_attribute(bytes, pos, depth) ==
    IF pos > Len(bytes) \/ depth = 0 THEN pos
    ELSE skip_attribute(bytes, pos + 1,
                        IF bytes[pos] = "[" THEN depth + 1
                        ELSE IF bytes[pos] = "]" THEN depth - 1
                        ELSE depth)

\* the quoted string whose body starts at pos
RECURSIVE skip_quoted(_, _, _)
skip_quoted(bytes, pos, quote) ==
    IF pos > Len(bytes) THEN pos
    ELSE IF bytes[pos] = "\\" /\ pos < Len(bytes) THEN skip_quoted(bytes, pos + 2, quote)
    ELSE IF bytes[pos] = quote THEN pos + 1
    ELSE skip_quoted(bytes, pos + 1, quote)

\* the heredoc/nowdoc body from pos on, up to the line that holds the label
RECURSIVE skip_heredoc_body(_, _, _)
skip_heredoc_body(bytes, pos, label) ==
    LET len == Len(bytes)
        at_label == skip_while(bytes, pos, {" ", "\t"})
        after_label == at_label + Len(label)
    IN  IF pos > len THEN pos
        ELSE IF bytes[pos] = "\n" \/ pos = 1 \/ bytes[pos - 1] = "\n"
        THEN IF after_label - 1 <= len /\ slice(bytes, at_label, after_label) = label
             THEN IF after_label > len \/ bytes[after_label] \in {";", "\n"}
                  THEN skip_until(bytes, after_label, "\n")
                  ELSE skip_heredoc_body(bytes, after_label, label)
             ELSE IF at_label = pos THEN skip_heredoc_body(bytes, pos + 1, label)
             ELSE skip_heredoc_body(bytes, at_label, label)
        ELSE skip_heredoc_body(bytes, pos + 1, label)

\* the "<<<" at pos
\* a plausible slip: an opener without a label leaves the position where it was
skip_heredoc_label_required(bytes, pos) ==
    LET len == Len(bytes)
        label_start == skip_while(bytes, pos + 3, {" ", "'", "\""})
        label_end == skip_while(bytes, label_start, IdentBytes)
        eol == skip_until(bytes, label_end, "\n")
    IN  IF label_end = label_start THEN pos
        ELSE skip_heredoc_body(bytes, IF eol <= len THEN eol + 1 ELSE eol,
                               slice(bytes, label_start, label_end))

\* the arm for <<<, which starts at pos
skip_heredoc(bytes, pos) ==
    LET len == Len(bytes)
        label_start == skip_while(bytes, pos + 3, {" ", "'", "\""})
        label_end == skip_while(bytes, label_start, IdentBytes)
        eol == skip_until(bytes, label_end, "\n")
    IN  IF label_end = label_start THEN label_end
        ELSE skip_heredoc_body(bytes, IF eol <= len THEN eol + 1 ELSE eol,
                               slice(bytes, label_start, label_end))

\* the scanner's local state before the first byte
ScanStart == [pos |-> 1, symbols |-> <<>>, namespace |-> <<>>, ns_brace_depth |-> -1,
              brace_depth |-> 0, prev_was_new |-> FALSE, after_double_colon |-> FALSE]

\* a plausible slip: the scope-resolution flag is not consulted
is_declaration_ignoring_colons(st) == ~st.prev_was_new

\* the test that guards a declaration keyword
is_declaration(st) == ~st.prev_was_new /\ ~st.after_double_colon

\* a plausible slip: the name is not looked up in the keyword list
is_symbol_name_unchecked(name) == name # <<>>

\* the name after a declaration keyword is kept
is_symbol_name(name) == name # <<>> /\ name \notin PHP_KEYWORDS

DeclarationWords == {chars("class"), chars("interface"), chars("trait"), chars("enum")}

\* a plausible slip: the modifier words are treated like any other word
ModifierWords_none == {}

\* the words that leave prev_was_new alone
ModifierWords == {chars("abstract"), chars("final"), chars("readonly")}

\* the arm for the word "namespace", which ends before pos
on_namespace(bytes, st, pos) ==
    LET name == read_namespace_name(bytes, pos)
        ns == slice(bytes, name[1], name[2])
        brace == skip_whitespace(bytes, name[2])
        braced == brace <= Len(bytes) /\ bytes[brace] = "{"
    IN  IF ns = <<>>
        THEN [st EXCEPT !.pos = name[2], !.prev_was_new = FALSE, !.after_double_colon = FALSE]
        ELSE [st EXCEPT !.pos = IF braced THEN brace + 1 ELSE brace,
                        !.namespace = ns,
                        !.ns_brace_depth = IF braced THEN st.brace_depth ELSE @,
                        !.brace_depth = IF braced THEN @ + 1 ELSE @,
                        !.prev_was_new = FALSE, !.after_double_colon = FALSE]

\* the arm for "class", "interface", "trait" and "enum", which ends before pos
on_declaration(bytes, st, pos) ==
    LET name_start == skip_whitespace(bytes, pos)
        name_end == read_identifier(bytes, name_start)
        name == slice(bytes, name_start, name_end)
        fqcn == IF st.namespace # <<>> THEN st.namespace \o <<"\\">> \o name ELSE name
    IN  IF is_declaration(st)
        THEN [st EXCEPT !.pos = name_end,
                        !.symbols = IF is_symbol_name(name) THEN Append(@, fqcn) ELSE @,
                        !.prev_was_new = FALSE, !.after_double_colon = FALSE]
        ELSE [st EXCEPT !.pos = pos, !.prev_was_new = FALSE, !.after_double_colon = FALSE]

\* the arm for a byte that starts a word
on_word(bytes, st) ==
    LET word_end == skip_while(bytes, st.pos, IdentBytes)
        word == slice(bytes, st.pos, word_end)
    IN  IF word = chars("namespace") THEN on_namespace(bytes, st, word_end)
        ELSE IF word \in DeclarationWords THEN on_declaration(bytes, st, word_end)
        ELSE IF word = chars("new")
        THEN [st EXCEPT !.pos = word_end, !.prev_was_new = TRUE, !.after_double_colon = FALSE]
        ELSE IF word \in ModifierWords
        THEN [st EXCEPT !.pos = word_end, !.after_double_colon = FALSE]
        ELSE [st EXCEPT !.pos = word_end, !.prev_was_new = FALSE, !.after_double_colon = FALSE]

\* the arm for '}'
on_close_brace(st) ==
    LET depth == IF st.brace_depth > 0 THEN st.brace_depth - 1 ELSE 0
        closes == st.ns_brace_depth # -1 /\ depth = st.ns_brace_depth
    IN  [st EXCEPT !.brace_depth = depth,
                   !.namespace = IF closes THEN <<>> ELSE @,
                   !.ns_brace_depth = IF closes THEN -1 ELSE @,
                   !.pos = @ + 1, !.prev_was_new = FALSE]

\* the arm for any other byte
on_other(bytes, st) ==
    IF bytes[st.pos] = ":" /\ st.pos < Len(bytes) /\ bytes[st.pos + 1] = ":"
    THEN [st EXCEPT !.pos = @ + 2, !.after_double_colon = TRUE, !.prev_was_new = FALSE]
    ELSE [st EXCEPT !.pos = @ + 1, !.prev_was_new = FALSE, !.after_double_colon = FALSE]

\* one turn of the loop `while pos < len`
scan_step(bytes, st) ==
    LET pos == st.pos
        b == bytes[pos]
        more == pos < Len(bytes)
    IN  IF b \in Whitespace THEN [st EXCEPT !.pos = pos + 1]
        ELSE IF b = "/" /\ more /\ bytes[pos + 1] = "/"
        THEN [st EXCEPT !.pos = skip_until(bytes, pos + 2, "\n")]
        ELSE IF b = "/" /\ more /\ bytes[pos + 1] = "*"
        THEN [st EXCEPT !.pos = skip_block_comment(bytes, pos)]
        ELSE IF b = "#" /\ more /\ bytes[pos + 1] # "["
        THEN [st EXCEPT !.pos = skip_until(bytes, pos + 1, "\n")]
        ELSE IF b = "#" /\ more /\ bytes[pos + 1] = "["
        THEN [st EXCEPT !.pos = skip_attribute(bytes, pos + 2, 1)]
        ELSE IF b \in {"'", "\""}
        THEN [st EXCEPT !.pos = skip_quoted(bytes, pos + 1, b)]
        ELSE IF b = "<" /\ pos + 2 <= Len(bytes) /\ bytes[pos + 1] = "<" /\ bytes[pos + 2] = "<"
        THEN [st EXCEPT !.pos = skip_heredoc(bytes, pos)]
        ELSE IF b = "{"
        THEN [st EXCEPT !.brace_depth = @ + 1, !.pos = pos + 1, !.prev_was_new = FALSE]
        ELSE IF b = "}" THEN on_close_brace(st)
        ELSE IF b \in Letters \cup {"_"} THEN on_word(bytes, st)
        ELSE on_other(bytes, st)

\* the loop: the scanner's state when pos has reached the end
RECURSIVE scan(_, _)
scan(bytes, st) == IF st.pos > Len(bytes) THEN st ELSE scan(bytes, scan_step(bytes, st))

\* extract_php_symbols on the bytes of a text
php_symbols(bytes) == scan(bytes, ScanStart).symbols

-----------------------------------------------------------------------------
(* extract_php_symbols on its own.  A source text is given as the lexical   *)
(* fragments it is put together from (pin); the parser is handed their      *)
(* concatenation.  Each family of texts has fragments of its own.           *)

\* the text made of the fragments
text_of(fragments) == Flatten(fragments)

Extract ==
    /\ pres = <<>>
    /\ pres' = <<php_symbols(text_of(pin))>>
    /\ UNCHANGED <<fs, now, disk, pending, ops, last, runs, cin, cout, vin, vres, din, dres,
                   min, mres, xin, xres, pin, proc>>

\* the sequences of up to n of the fragments
Fragments(fragments, n) == SeqUpTo({chars(f) : f \in fragments}, n)

InitParse(texts) ==
    /\ fs = InitTree({})
    /\ disk = NoFile
    /\ RunIdle
    /\ pin \in texts
    /\ pres = <<>>
    /\ cin = <<>> /\ cout = <<>> /\ vin = <<>> /\ vres = <<>> /\ din = <<>> /\ dres = <<>>
    /\ min = <<>> /\ mres = <<>> /\ xin = <<>> /\ xres = <<>> /\ proc = <<>>

\* declaration keywords followed by reserved words, by names that differ
\* from a reserved word in case or by one more character, and by namespaces
KeywordFragments ==
    {"class ", "enum ", "interface\n", "trait\t", "extends", "Extends", "s", "Foo", " ",
     "{", "namespace N\\", ";"}

InitKeywords == InitParse(Fragments(KeywordFragments, MaxToks))

SpecKeywords == InitKeywords /\ [][Extract]_vars

\* C16: no symbol returned by extract_php_symbols has a bare name (the part
\* after the last namespace separator) that is in the reserved-keyword set.
C16_NoKeywordAsName ==
    pres # <<>> => \A i \in 1..Len(pres[1]) : bare_name(pres[1][i]) \notin PHP_KEYWORDS

C16_Witness ==
    /\ pin = <<chars("class "), chars("extends"), chars(" "), chars("Foo")>>
    /\ pres = << <<>> >>

\* what stands before the class-constant expression
ColonLeadFragments ==
    {"class A{}", "new ", "final ", "$x=", "namespace N;", "{", "match(1){", "/*c*/", "'",
     ":"}

\* the scope-resolution operator after a name
ColonCores == {chars("Foo::"), chars("$x::")}

\* what stands between the operator and the keyword
ColonGaps == {chars(""), chars(" "), chars("\n"), chars("/*c*/")}

\* the declaration keyword and the token after it
ColonKeywords == {w \o chars(sep) \o chars("Bad") : w \in DeclarationWords, sep \in {" ", "\n"}}

ColonTails == {chars(""), chars("{}"), chars(" instanceof B"), chars("=>1,}"), chars(";class B{}")}

InitDoubleColon ==
    InitParse({lead \o <<core, gap, keyword, tail>> :
                  lead \in Fragments(ColonLeadFragments, MaxToks - 2), core \in ColonCores,
                  gap \in ColonGaps, keyword \in ColonKeywords, tail \in ColonTails})

SpecDoubleColon == InitDoubleColon /\ [][Extract]_vars

\* C17: when the scope-resolution operator of a class-constant expression
\* (Foo::class) is followed by a declaration keyword, the token after the
\* keyword is never emitted as a symbol.
C17_NoSymbolAfterDoubleColon ==
    pres # <<>> => \A i \in 1..Len(pres[1]) : bare_name(pres[1][i]) # chars("Bad")

C17_Witness ==
    /\ pin = <<chars("class A{}"), chars("match(1){"), chars("Foo::"), chars(""),
               chars("interface Bad"), chars("=>1,}")>>
    /\ pres = << <<chars("A")>> >>

\* what stands before the expression, and the symbols it declares
AnonLeads == {chars(""), chars("$x="), chars("return "), chars("f("), chars("class A{} ")}

\* what can stand between `new` and `class`: whitespace, comments, attribute
\* blocks and modifier keywords
AnonGapFragments ==
    {" ", "\n", "\t", "/*c*/", "//c\n", "#c\n", "#[A(1)]", "#[A([1])]",
     " abstract ", " final ", " readonly "}

\* what follows `class`: arguments, parents, a body, and a name where an
\* anonymous class has none
AnonRests ==
    {chars("{}"), chars(" {}"), chars("(1) {}"), chars(" extends B {}"),
     chars(" implements B {function f(){return new class{};}}"), chars(" B {}")}

AnonTails == {chars(""), chars(";class C{}")}

InitAnonymous ==
    InitParse({<<lead, chars("new")>> \o gap \o <<chars("class"), rest, tail>> :
                  lead \in AnonLeads,
                  gap \in Fragments(AnonGapFragments, MaxToks - 2) \ {<<>>},
                  rest \in AnonRests, tail \in AnonTails})

SpecAnonymous == InitAnonymous /\ [][Extract]_vars

\* the symbols declared before and after the expression
around(fragments) ==
    (IF fragments[1] = chars("class A{} ") THEN <<chars("A")>> ELSE <<>>)
      \o (IF fragments[Len(fragments)] = chars(";class C{}") THEN <<chars("C")>> ELSE <<>>)

\* C18: an anonymous-class expression makes extract_php_symbols emit no
\* symbol, also when modifier keywords, whitespace, comments or an attribute
\* block stand between `new` and `class`: the symbols returned are those
\* declared before and after the expression.
C18_AnonymousClassSilent ==
    pres # <<>> => pres[1] = around(pin)

C18_Witness ==
    /\ pin = <<chars("class A{} "), chars("new"), chars(" final "), chars("#[A([1])]"),
               chars("class"), chars(" extends B {}"), chars(";class C{}")>>
    /\ pres = << <<chars("A"), chars("C")>> >>

\* The regions the scanner has to skip.  Each kind has the texts that open
\* it, the fragments its body is put together from (none of which ends the
\* region in PHP), and the texts that close it.
LineComment ==
    [open |-> {"//", "# "}, body |-> {"class Bad{}", " ", "*/", "/*", "'", "#[", "<<<X"},
     close |-> {"\n"}]

BlockComment ==
    [open |-> {"/*", "/** "}, body |-> {"class Bad{}", "\n", "* ", "//", "'", "#[", "<<<X\n"},
     close |-> {"*/"}]

AttributeBlock ==
    [open |-> {"#["}, body |-> {"A(", "B::class", "enum Bad", "[1]", ")", ",", "'class Bad{'", "\"]\"",
                                   "\"] enum Bad{\""},
     close |-> {"]", "]\n"}]

SingleQuoted ==
    [open |-> {"'"}, body |-> {"class Bad{}", "\\'", "\\\\", "\"", "//", "\n", "]"},
     close |-> {"';"}]

DoubleQuoted ==
    [open |-> {"\""}, body |-> {"class Bad{}", "\\\"", "\\\\", "'", "/*", "\n", "$x"},
     close |-> {"\";"}]

Heredoc ==
    [open |-> {"<<<EOT\n", "<<<'EOT'\n", "<<< \"EOT\"\n"},
     body |-> {"class Bad{}\n", "EOTX;\n", " class Bad\n", "\n", "'\n", "x EOT;\n"},
     close |-> {"EOT;\n", "EOT\n", "  EOT;\n"}]

RegionKinds == {LineComment, BlockComment, AttributeBlock, SingleQuoted, DoubleQuoted, Heredoc}

\* what stands before the region, and after it
RegionLeads == {chars(""), chars("namespace N;")}
RegionTails == {chars(""), chars("class Good{}"), chars(" enum Good{}")}

RegionTexts(kind) ==
    {<<lead, chars(open)>> \o body \o <<chars(close), tail>> :
        lead \in RegionLeads, open \in kind.open,
        body \in Fragments(kind.body, MaxToks - 1),
        close \in kind.close, tail \in RegionTails}

InitSkipped == InitParse(UNION {RegionTexts(kind) : kind \in RegionKinds})

SpecSkipped == InitSkipped /\ [][Extract]_vars

\* the symbol declared after the region, if one is
after_region(fragments) ==
    IF fragments[Len(fragments)] = chars("")
    THEN <<>>
    ELSE << (IF fragments[1] = chars("") THEN <<>> ELSE chars("N\\")) \o chars("Good") >>

\* C19: a declaration keyword inside a line comment, a block comment, an
\* attribute block, a quoted string or a heredoc/nowdoc body emits no
\* symbol, and the declaration that follows the end of the region is
\* emitted: the symbols returned are those declared after the region.
C19_AsStated ==
    pres # <<>> => pres[1] = after_region(pin)

\* an attribute block whose argument is a string that holds a closing
\* bracket: the text in the attribute is scanned as code
C19_Witness ==
    /\ pin = <<chars(""), chars("#["), chars("A("), chars("\"] enum Bad{\""), chars(")"),
               chars("]"), chars("class Good{}")>>
    /\ pres = << <<chars("Bad")>> >>

\* the fragments hold a string literal with a closing bracket in it
bracket_in_string(fragments) ==
    \E i \in 1..Len(fragments) : fragments[i] \in {chars("\"]\""), chars("\"] enum Bad{\"")}

\* the same holds of every region but an attribute block that holds a
\* string literal with a closing bracket in it
C19_BracketFreeAttributes ==
    ~bracket_in_string(pin) => C19_AsStated

\* The fragments of a text with namespaces and braces: what each one is in
\* PHP (kind) and the name it carries.
BraceTokens ==
    { [text |-> "namespace A{",            kind |-> "ns_brace",  name |-> "A"],
      [text |-> "namespace A\\B \n{",      kind |-> "ns_brace",  name |-> "A\\B"],
      [text |-> "namespace A/*c*/{",       kind |-> "ns_brace",  name |-> "A"],
      [text |-> "namespace{",              kind |-> "ns_brace",  name |-> ""],
      [text |-> "namespace B;",            kind |-> "ns_semi",   name |-> "B"],
      [text |-> "namespace C ;",           kind |-> "ns_semi",   name |-> "C"],
      [text |-> "class X{function f(){}}", kind |-> "decl",      name |-> "X"],
      [text |-> "trait T{",                kind |-> "decl_open", name |-> "T"],
      [text |-> "if(1){",                  kind |-> "open",      name |-> ""],
      [text |-> "}",                       kind |-> "close",     name |-> ""],
      [text |-> "f('}', \"{\");/*}*/",     kind |-> "skip",      name |-> ""] }

BraceTails == {chars(""), chars("class Y{}")}

token(fragment) == CHOOSE t \in BraceTokens : chars(t.text) = fragment

qualify(ns, name) == IF ns = <<>> THEN name ELSE ns \o chars("\\") \o name

\* What a text means, fragment by fragment: the open braces (those of a
\* namespace marked "ns"), the namespace in force, the symbols declared, and
\* whether the text is well formed so far: no brace closed that was not
\* opened, namespaces declared outside every brace, and one style of
\* namespace declaration in a text.
BraceStart == [stack |-> <<>>, namespace |-> <<>>, symbols |-> <<>>, styles |-> {}, ok |-> TRUE]

brace_step(r, t) ==
    CASE t.kind = "ns_brace" ->
            [r EXCEPT !.stack = Append(@, "ns"), !.namespace = chars(t.name),
                      !.styles = @ \cup {"brace"},
                      !.ok = @ /\ r.stack = <<>> /\ "semi" \notin r.styles]
      [] t.kind = "ns_semi" ->
            [r EXCEPT !.namespace = chars(t.name), !.styles = @ \cup {"semi"},
                      !.ok = @ /\ r.stack = <<>> /\ "brace" \notin r.styles]
      [] t.kind = "decl" ->
            [r EXCEPT !.symbols = Append(@, qualify(r.namespace, chars(t.name)))]
      [] t.kind = "decl_open" ->
            [r EXCEPT !.symbols = Append(@, qualify(r.namespace, chars(t.name))),
                      !.stack = Append(@, "b")]
      [] t.kind = "open" -> [r EXCEPT !.stack = Append(@, "b")]
      [] t.kind = "close" ->
            IF r.stack = <<>>
            THEN [r EXCEPT !.ok = FALSE]
            ELSE [r EXCEPT !.stack = SubSeq(@, 1, Len(@) - 1),
                           !.namespace = IF r.stack[Len(r.stack)] = "ns" THEN <<>> ELSE @]
      [] OTHER -> r

RECURSIVE meaning(_, _)
meaning(fragments, r) ==
    IF fragments = <<>> THEN r
    ELSE IF Len(fragments) = 1 /\ fragments[1] \in BraceTails
    THEN IF fragments[1] = chars("") THEN r
         ELSE [r EXCEPT !.symbols = Append(@, qualify(r.namespace, chars("Y")))]
    ELSE meaning(Tail(fragments), brace_step(r, token(Head(fragments))))

BraceTexts(n) ==
    {text \in {body \o <<tail>> : body \in Fragments({t.text : t \in BraceTokens}, n),
                                  tail \in BraceTails} :
        meaning(text, BraceStart).ok}

InitBraces == InitParse(BraceTexts(MaxToks))

SpecBraces == InitBraces /\ [][Extract]_vars

\* C20: the brace depth the scan ends with is the number of braces left
\* open, and the symbols come out under the namespace in force where they
\* are declared: that of a brace-scoped namespace up to the brace that
\* matches its opening one and none after it, that of a semicolon-style
\* namespace up to the next namespace declaration.
C20_AsStated ==
    pres # <<>> =>
        /\ scan(text_of(pin), ScanStart).brace_depth = Len(meaning(pin, BraceStart).stack)
        /\ pres[1] = meaning(pin, BraceStart).symbols

\* a comment between the name of a brace-scoped namespace and its brace:
\* the namespace outlives the matching brace
C20_Witness ==
    /\ pin = <<chars("namespace A/*c*/{"), chars("class X{function f(){}}"), chars("}"),
               chars("namespace{"), chars("class Y{}")>>
    /\ pres = << <<chars("A\\X"), chars("A\\Y")>> >>

\* the fragments hold a namespace whose brace follows a comment
comment_before_brace(fragments) ==
    \E i \in 1..Len(fragments) : fragments[i] = chars("namespace A/*c*/{")

\* the text ends with a block comment and one more byte
one_byte_after_comment(fragments) ==
    LET text == text_of(fragments)
        n == Len(text)
    IN  n >= 3 /\ text[n - 2] = "*" /\ text[n - 1] = "/"

\* the same holds of every text in which only whitespace stands between
\* the name of a brace-scoped namespace and its brace, and which does not
\* end one byte after a block comment
C20_WhitespaceBeforeBrace ==
    ~comment_before_brace(pin) /\ ~one_byte_after_comment(pin) => C20_AsStated

\* a text that ends one byte after a block comment: the symbols are still
\* those declared, only the depth the scan ends with may be off
C20_SymbolsAfterComment ==
    pres # <<>> /\ ~comment_before_brace(pin) => pres[1] = meaning(pin, BraceStart).symbols

\* ---------------------------------------------------------------------
\* The pre-filter on the bytes of a file, and the branch of parse_one_file
\* that trusts it.

PrefilterWords_but_enum == {chars("class"), chars("interface"), chars("trait")}

\* the patterns of the Aho-Corasick automaton
PrefilterWords == {chars("class"), chars("interface"), chars("trait"), chars("enum")}

\* AC.is_match(bytes): one of the patterns occurs somewhere in the bytes
is_match(bytes) ==
    \E i \in 1..Len(bytes) : \E w \in PrefilterWords :
        /\ bytes[i] = w[1]
        /\ i + Len(w) - 1 <= Len(bytes)
        /\ SubSeq(bytes, i, i + Len(w) - 1) = w

\* the symbols parse_one_file gets for the contents of a file it had to read
parsed_symbols(bytes) == IF ~is_match(bytes) THEN <<>> ELSE php_symbols(bytes)

\* parse_one_file on contents it had to read: the symbols it records and
\* what the pre-filter said
Prefilter ==
    /\ pres = <<>>
    /\ pres' = <<parsed_symbols(text_of(pin)), is_match(text_of(pin))>>
    /\ UNCHANGED <<fs, now, disk, pending, ops, last, runs, cin, cout, vin, vres, din, dres,
                   min, mres, xin, xres, pin, proc>>

\* pieces of keywords, keywords in another case, and what follows them
PrefilterFragments ==
    {"clas", "s", "class", "Class", " Foo{}", "enum B{}", "tra", "it X;"}

InitPrefilter == InitParse(Fragments(PrefilterFragments, MaxToks))

SpecPrefilter == InitPrefilter /\ [][Prefilter]_vars

\* C21: the symbols parse_one_file records are those the parser finds in
\* the contents, whether or not the pre-filter let the parser run: when
\* the pre-filter says no, the parser finds no symbol.
C21_NoFalseNegative ==
    pres # <<>> =>
        LET symbols == php_symbols(text_of(pin))
        IN  /\ pres[1] = symbols
            /\ ~pres[2] => symbols = <<>>

\* a keyword in another case with a name after it: the pre-filter says no
C21_Witness ==
    /\ pin = <<chars("Class"), chars(" Foo{}"), chars("tra"), chars("s")>>
    /\ pres = << <<>>, FALSE >>

\* ---------------------------------------------------------------------
\* The scan turn by turn: pres holds the scanner's local state.

\* the locals are set up
ScanBegin ==
    /\ pres = <<>>
    /\ pres' = <<ScanStart>>
    /\ UNCHANGED <<fs, now, disk, pending, ops, last, runs, cin, cout, vin, vres, din, dres,
                   min, mres, xin, xres, pin, proc>>

\* one turn of `while pos < len`
ScanTurn ==
    /\ pres # <<>>
    /\ pres[1].pos <= Len(text_of(pin))
    /\ pres' = <<scan_step(text_of(pin), pres[1])>>
    /\ UNCHANGED <<fs, now, disk, pending, ops, last, runs, cin, cout, vin, vres, din, dres,
                   min, mres, xin, xres, pin, proc>>

\* pieces of malformed source: comments, strings, attribute blocks and
\* heredocs that are not closed, an opener without a label, braces that do
\* not match
MalformedFragments ==
    {"/*x", "'a\\", "\"", "#[[", "<<<\n", "<<< 'E'\nx", "}", "class A{", "namespace ", "*"}

InitScan == InitParse(Fragments(MalformedFragments, MaxToks - 2))

NextScan == ScanBegin \/ ScanTurn

SpecScan == InitScan /\ [][NextScan]_vars

\* the loop is sequential code: a turn that can be taken is taken
FairScan == SpecScan /\ WF_vars(NextScan)

\* the loop has ended: the locals hold the result
scan_done == pres # <<>> /\ pres[1].pos > Len(text_of(pin))

\* C22: every turn of the loop moves the position forward, and on every
\* text, malformed ones included, the loop comes to its end with a list
\* of symbols.
C22_Terminates ==
    /\ [][ScanTurn => pres'[1].pos > pres[1].pos]_vars
    /\ <>scan_done

\* the scan of a class with an unclosed body followed by an unclosed
\* heredoc has ended, with the symbol of the class
C22_Witness ==
    /\ pin = <<chars("class A{"), chars("<<< 'E'\nx")>>
    /\ scan_done
    /\ pres[1].symbols = <<chars("A")>>

\* ---------------------------------------------------------------------
\* The full walk in its two phases, with the tree changing in between.

\* the traversal: the paths to parse and the directory mtimes, as they are
\* when the receive loop has ended
found_files(dirs, excludes, ord) ==
    LET single == SelectSeq(dirs, LAMBDA d : is_file(d) /\ has_php_extension(d))
        walk_dirs == SelectSeq(dirs, LAMBDA d : exists(d) /\ ~is_file(d))
        visited(p) == Cardinality({i \in 1..Len(walk_dirs) :
                          p = walk_dirs[i] \/ starts_with(p, dir_prefix(walk_dirs[i]))})
        sent(p) == /\ is_file(p) /\ visited(p) > 0
                   /\ has_php_extension(p) /\ ~excluded(excludes, p)
        found == Flatten([i \in 1..Len(ord) |->
                            IF sent(ord[i]) THEN repeat(ord[i], visited(ord[i])) ELSE <<>>])
    IN  [paths |-> single \o found,
         dir_mtimes |-> [d \in {p \in DOMAIN fs : is_dir(p) /\ visited(p) > 0} |-> get_mtime(d)],
         directories_walked |-> Len(walk_dirs)]

\* the parallel parse of the paths found, and the merge
parsed_files(found, cache) ==
    With([i \in 1..Len(found.paths) |-> parse_one_file(found.paths[i], cache.files)],
         LAMBDA results :
        [entries |-> merged_entries(found.paths, results),
         files_scanned |-> count(results, "scanned"),
         php_files_found |-> Len(found.paths),
         directories_walked |-> found.directories_walked,
         cache_hits |-> count(results, "hit"),
         new_cache |-> [version |-> CACHE_VERSION,
                        files |-> merged_files(found.paths, results),
                        dir_mtimes |-> found.dir_mtimes],
         walk_skipped |-> FALSE,
         failed |-> {found.paths[i] : i \in {j \in 1..Len(found.paths) : ~results[j].some}},
         served |-> {found.paths[i] : i \in {j \in 1..Len(found.paths) : results[j].hit = 1}}])

UnreadDirs == all_dirs(Psr4, Psr0, ClassmapDirs)

\* what a finished run leaves to look at
Outcome(wr, paths) ==
    [walk_skipped |-> wr.walk_skipped,
     paths |-> paths,
     entries |-> wr.entries,
     files |-> DOMAIN wr.new_cache.files,
     failed |-> wr.failed,
     served |-> wr.served,
     unreadable |-> {f \in Files : ~can_read(f)},
     classmap |-> build_classmap(wr.entries, Psr4, Psr0, ClassmapDirs, <<>>)]

\* run() up to the end of the traversal, when the directories have changed
FindFiles(ord) ==
    /\ runs < MaxRuns /\ xin = <<>>
    /\ ~dirs_unchanged(load_cache(disk), UnreadDirs)
    /\ xin' = <<found_files(UnreadDirs, Excludes, ord)>>
    /\ UNCHANGED <<fs, now, disk, pending, ops, last, runs, cin, cout, vin, vres, din, dres,
                   min, mres, xres, pin, pres, proc>>

\* the rest of that run: parse, merge, save
ParseFiles ==
    /\ xin # <<>>
    /\ \E wr \in {parsed_files(xin[1], load_cache(disk))} :
          /\ disk' = save_cache(disk, wr.new_cache, "ok")
          /\ xres' = Append(xres, Outcome(wr, Range(xin[1].paths)))
    /\ xin' = <<>>
    /\ runs' = runs + 1
    /\ UNCHANGED <<fs, now, pending, ops, last, cin, cout, vin, vres, din, dres, min, mres,
                   pin, pres, proc>>

\* run() when the directories have not changed: the paths come from the
\* cache and are parsed at once
FastRun(ord) ==
    /\ runs < MaxRuns /\ xin = <<>>
    /\ dirs_unchanged(load_cache(disk), UnreadDirs)
    /\ \E wr \in {walk_and_parse_cached(UnreadDirs, Excludes, load_cache(disk), VendorDir, ord)} :
          /\ disk' = save_cache(disk, wr.new_cache, "ok")
          /\ xres' = Append(xres,
                Outcome([wr EXCEPT !.walk_skipped = TRUE] @@
                        [failed |-> wr.statted \ DOMAIN wr.new_cache.files,
                         served |-> (DOMAIN wr.new_cache.files) \ wr.read],
                        wr.statted \cup wr.trusted))
    /\ runs' = runs + 1
    /\ UNCHANGED <<fs, now, pending, ops, last, cin, cout, vin, vres, din, dres, min, mres,
                   xin, pin, pres, proc>>

\* a file is removed: its directory's mtime is set to the clock
LoseFile(f) ==
    /\ ops < MaxOps + 1
    /\ fs[f].kind = "file"
    /\ fs' = [fs EXCEPT ![f] = Absent, ![ParentOf(f)].mtime = now]
    /\ ops' = ops + 1
    /\ UNCHANGED <<now, disk, pending, last, runs, cin, cout, vin, vres, din, dres, min, mres,
                   xin, xres, pin, pres, proc>>

\* the permission to read a file is withdrawn: no mtime changes
LockFile(f) ==
    /\ ops < MaxOps + 1
    /\ can_read(f)
    /\ fs' = [fs EXCEPT ![f].content = "locked"]
    /\ ops' = ops + 1
    /\ UNCHANGED <<now, disk, pending, last, runs, cin, cout, vin, vres, din, dres, min, mres,
                   xin, xres, pin, pres, proc>>

TickUnread ==
    /\ now < MaxTime
    /\ now' = now + 1
    /\ UNCHANGED <<fs, disk, pending, ops, last, runs, cin, cout, vin, vres, din, dres, min,
                   mres, xin, xres, pin, pres, proc>>

InitUnread ==
    /\ fs = InitTree(Files)
    /\ disk = NoFile
    /\ RunIdle
    /\ Idle

NextUnread ==
    \/ \E ord \in Orders : FindFiles(ord)
    \/ ParseFiles
    \/ \E ord \in Orders : FastRun(ord)
    \/ \E f \in Files : LoseFile(f)
    \/ \E f \in Files : LockFile(f)
    \/ TickUnread

SpecUnread == InitUnread /\ [][NextUnread]_vars

\* the files of the entries
entry_files(entries) == {entries[i][2] : i \in 1..Len(entries)}

generated(files, static, sfx) ==
    Artifacts \o (IF files THEN <<"autoload_files.php">> ELSE <<>>)
              \o (IF static THEN <<"autoload_static.php">> ELSE <<>>)
              \o (IF sfx THEN <<"autoload.php", "autoload_real.php">> ELSE <<>>)

\* lists of artifacts a configuration can lead to: the tables that are
\* always written, with the single-file-autoload table, and with a suffix
\* and all that it adds
ArtifactLists ==
    {generated(FALSE, FALSE, FALSE), generated(TRUE, FALSE, FALSE), generated(TRUE, TRUE, TRUE)}

InitDump ==
    /\ fs = InitTree(Files)
    /\ disk = NoFile
    /\ RunIdle
    /\ Idle

NextDump ==
    \/ \E td \in BOOLEAN, wf \in BOOLEAN, st \in BOOLEAN, artifacts \in ArtifactLists :
          \E wfail \in 0..Len(artifacts) :
             RunWith(td, wf, st, wfail, "ok", <<FileA, FileV, FileW>>, artifacts)
    \/ Tick
    \/ \E f \in Volatile : \E c \in ContentsOf(f) : EditFile(f, c)

SpecDump == InitDump /\ [][NextDump]_vars

\* C24: a run that is to write its artifacts to a target directory and
\* fails at one of the writes, whichever it is, exits non-zero, and the
\* cache file is after the run what it was before.
C24_WriteFailureFatal ==
    [][last'.fresh /\ last'.write_failed
          => last'.exit # 0 /\ disk' = disk /\ ~last'.saved]_vars

\* a run after an edit failed at its fifth write: four artifacts are on
\* disk and the cache file is still the one of the run before, which
\* does not know the edit
C24_Witness ==
    /\ last.fresh /\ last.write_failed /\ last.exit = 1
    /\ Cardinality(last.written) = 4
    /\ last.since.edited # {}
    /\ disk.kind = "json"
    /\ \E f \in last.since.edited : from_slice(disk).files[f].mtime # fs[f].mtime

\* C25: a run that completes with a staging suffix has written every
\* artifact it generates under its name with the suffix appended, reports
\* files_written, and returns no contents; a run that completes without a
\* staging suffix returns the contents inline.
C25_AsStated ==
    last.fresh /\ last.exit = 0 =>
        /\ last.staging =>
              /\ last.written = {<<last.artifacts[i], TRUE>> : i \in 1..Len(last.artifacts)}
              /\ last.files_written
              /\ ~last.contents
        /\ ~last.staging => last.contents

\* a run with a staging suffix and no target directory has completed: the
\* table is not empty, nothing is written and nothing is returned
C25_Witness ==
    /\ last.fresh /\ last.exit = 0
    /\ last.staging /\ ~last.td
    /\ last.classmap_count > 0
    /\ last.written = {} /\ ~last.files_written /\ ~last.contents

\* the same holds of every run that is given a target directory
C25_WithTargetDir ==
    last.td => C25_AsStated

\* ---------------------------------------------------------------------
\* Runs on one tree that differ only in the order in which the threads
\* deliver their results.

\* run(config), with or without a cache directory, the paths delivered in
\* the order ord
RunOrder(td, ord) ==
    /\ runs < MaxRuns
    /\ \E cache \in {IF td THEN load_cache(disk) ELSE DefaultCache} :
       \E wr \in {walk_and_parse(all_dirs(Psr4, Psr0, ClassmapDirs), Excludes, cache,
                                 VendorDir, ord)} :
       \E classmap \in {build_classmap(wr.entries, Psr4, Psr0, ClassmapDirs, <<>>)} :
          /\ disk' = IF td THEN save_cache(disk, wr.new_cache, "ok") ELSE disk
          /\ xres' = Append(xres, [walk_skipped |-> wr.walk_skipped,
                                   order |-> ord,
                                   entries |-> wr.entries,
                                   classmap |-> classmap,
                                   classmap_count |-> Cardinality(DOMAIN classmap)])
    /\ runs' = runs + 1
    /\ UNCHANGED <<fs, now, pending, ops, last, cin, cout, vin, vres, din, dres, min, mres,
                   xin, pin, pres, proc>>

\* the trees: any of the files, the first with either of its contents
InitOrder ==
    /\ \E present \in SUBSET Files : \E c \in ContentsOf(FileA) :
          fs = [InitTree(present) EXCEPT ![FileA].content = IF FileA \in present THEN c ELSE @]
    /\ disk = NoFile
    /\ RunIdle
    /\ Idle

NextOrder == \E td \in BOOLEAN, ord \in Orders : RunOrder(td, ord)

SpecOrder == InitOrder /\ [][NextOrder]_vars

\* C26: the runs on a tree have the same set of entries, the same symbols
\* in the table and the same count, whatever the orders of delivery.
C26_SameSetEveryOrder ==
    \A i \in 1..Len(xres) : \A j \in 1..Len(xres) :
        /\ Range(xres[i].entries) = Range(xres[j].entries)
        /\ DOMAIN xres[i].classmap = DOMAIN xres[j].classmap
        /\ xres[i].classmap_count = xres[j].classmap_count

\* two full walks of a tree in which two eligible files declare the same
\* symbol, delivered in different orders: the symbol goes to different
\* files
C26_Witness ==
    /\ Len(xres) = 2
    /\ ~xres[1].walk_skipped /\ ~xres[2].walk_skipped
    /\ xres[1].order # xres[2].order
    /\ ClassB \in DOMAIN xres[1].classmap
    /\ xres[1].classmap[ClassB] # xres[2].classmap[ClassB]
    /\ ClassA \in DOMAIN xres[1].classmap

\* ---------------------------------------------------------------------
\* save_cache system call by system call, with a reader of the cache path.
\* xin holds the document that was there before, cin the cache to save and
\* how far fs::write has come, cout what the readers saw.

\* the caches a run may have built
SavedCaches ==
    {[version |-> CACHE_VERSION, files |-> f, dir_mtimes |-> m] :
        f \in {<<>>} \cup {[p \in {FileA} |-> c] : c \in [mtime : 1..MaxTime, symbols : {<<ClassA>>}]},
        m \in [{SrcDir} -> 1..MaxTime]}

\* fs::write opens the file with create and truncate: the file is empty
OpenCache ==
    /\ cin[2] = "start"
    /\ disk' = Garbage
    /\ cin' = <<cin[1], "open">>
    /\ UNCHANGED <<fs, now, pending, ops, last, runs, cout, vin, vres, din, dres, min, mres,
                   xin, xres, pin, pres, proc>>

\* fs::write writes a part of the bytes: the file holds a prefix of the document
WritePart ==
    /\ cin[2] = "open"
    /\ disk' = Garbage
    /\ cin' = <<cin[1], "part">>
    /\ UNCHANGED <<fs, now, pending, ops, last, runs, cout, vin, vres, din, dres, min, mres,
                   xin, xres, pin, pres, proc>>

\* fs::write writes the last of the bytes
WriteRest ==
    /\ cin[2] \in {"open", "part"}
    /\ disk' = to_vec(cin[1])
    /\ cin' = <<cin[1], "done">>
    /\ UNCHANGED <<fs, now, pending, ops, last, runs, cout, vin, vres, din, dres, min, mres,
                   xin, xres, pin, pres, proc>>

\* another process reads the cache path: load_cache
ReadCache ==
    /\ Len(cout) < MaxRuns
    /\ cout' = Append(cout, [doc |-> disk, cache |-> load_cache(disk), during |-> cin[2]])
    /\ UNCHANGED <<fs, now, disk, pending, ops, last, runs, cin, vin, vres, din, dres, min, mres,
                   xin, xres, pin, pres, proc>>

InitAtomic ==
    /\ fs = InitTree({})
    /\ RunIdle
    /\ disk \in {NoFile} \cup {to_vec(c) : c \in SavedCaches}
    /\ xin = <<disk>>
    /\ cin \in {<<c, "start">> : c \in SavedCaches}
    /\ to_vec(cin[1]) # disk
    /\ cout = <<>> /\ vin = <<>> /\ vres = <<>> /\ din = <<>> /\ dres = <<>>
    /\ min = <<>> /\ mres = <<>> /\ xres = <<>> /\ pin = <<>> /\ pres = <<>> /\ proc = <<>>

NextAtomic == OpenCache \/ WritePart \/ WriteRest \/ ReadCache

SpecAtomic == InitAtomic /\ [][NextAtomic]_vars

\* C27: whoever reads the cache path sees the whole document that was
\* there before the run or the whole document of the new cache.
C27_AsStated ==
    \A i \in 1..Len(cout) : cout[i].doc \in {xin[1], to_vec(cin[1])}

\* a reader came between the truncation of a good cache file and the end
\* of the write: it found a file that does not decode and got an empty cache
C27_Witness ==
    /\ xin[1].kind = "json"
    /\ \E i \in 1..Len(cout) :
          /\ cout[i].during = "part"
          /\ cout[i].doc = Garbage
          /\ cout[i].cache = DefaultCache

\* what a reader loads is the previous cache, the new one, or the empty
\* cache: never a mixture of the two
C27_NeverMixed ==
    \A i \in 1..Len(cout) :
        cout[i].cache \in {load_cache(xin[1]), cin[1], DefaultCache}

-----------------------------------------------------------------------------
(* main: one invocation of the process.  Standard input is given by its    *)
(* structure (stdin): whether the bytes are UTF-8, whether the text is one  *)
(* JSON value, and what the object's fields hold.  proc is the process.     *)

\* a parser that stops at the end of the first JSON value
from_str_first_value(stdin) ==
    IF stdin.syntax \in {"value", "trailing"} /\ stdin.command \notin {"absent", "number"}
                                             /\ stdin.write_files # "string"
    THEN [ok |-> TRUE, command |-> stdin.command]
    ELSE [ok |-> FALSE, command |-> ""]

\* serde_json::from_str::<Input>: the whole text is one JSON value, `command`
\* is present and a string, the optional fields have their types; fields
\* Input does not name are ignored
from_str(stdin) ==
    IF stdin.syntax = "value" /\ stdin.command \notin {"absent", "number"}
                              /\ stdin.write_files # "string"
    THEN [ok |-> TRUE, command |-> stdin.command]
    ELSE [ok |-> FALSE, command |-> ""]

\* the arms of `match input.command.as_str()`
Commands == {"extract", "clean", "verify", "vendor-check", "classmap"}

\* what the field `command` holds in the inputs
CommandFields == Commands \cup {"absent", "number", "", "Classmap", "dump"}

\* the standard inputs
Stdins ==
    {[utf8 |-> FALSE, syntax |-> "value", command |-> "classmap", write_files |-> "absent",
      unknown |-> FALSE]}
    \cup [utf8 : {TRUE}, syntax : {"empty", "truncated", "trailing"}, command : {"classmap"},
          write_files : {"absent"}, unknown : {FALSE}]
    \cup [utf8 : {TRUE}, syntax : {"value"}, command : CommandFields,
          write_files : {"absent", "bool", "string"}, unknown : BOOLEAN]

\* a rust panic on the main thread: the message on standard error, status 101
panicked(message) ==
    [proc[1] EXCEPT !.pc = "exited", !.stderr = Append(@, message), !.exit = 101]

\* `--version` or `-V` among the arguments
PrintVersion ==
    /\ proc[1].pc = "start" /\ proc[1].version
    /\ proc' = <<[proc[1] EXCEPT !.pc = "exited", !.stdout = Append(@, "version"), !.exit = 0]>>
    /\ UNCHANGED <<fs, now, disk, pending, ops, last, runs, cin, cout, vin, vres, din, dres,
                   min, mres, xin, xres, pin, pres>>

\* io::stdin().read_to_string(&mut buf).expect(..)
ReadStdin ==
    /\ proc[1].pc = "start" /\ ~proc[1].version
    /\ proc' = IF proc[1].stdin.utf8 THEN <<[proc[1] EXCEPT !.pc = "read"]>>
               ELSE <<panicked("failed to read stdin")>>
    /\ UNCHANGED <<fs, now, disk, pending, ops, last, runs, cin, cout, vin, vres, din, dres,
                   min, mres, xin, xres, pin, pres>>

\* serde_json::from_str(&buf).expect(..)
ParseInput ==
    /\ proc[1].pc = "read"
    /\ LET input == from_str(proc[1].stdin)
       IN  proc' = IF input.ok
                   THEN <<[proc[1] EXCEPT !.pc = "parsed", !.command = input.command]>>
                   ELSE <<panicked("failed to parse input JSON")>>
    /\ UNCHANGED <<fs, now, disk, pending, ops, last, runs, cin, cout, vin, vres, din, dres,
                   min, mres, xin, xres, pin, pres>>

\* the match on the command: a command runs and returns its output, or
\* (classmap, when the artifacts cannot be written) ends the process itself;
\* any other name is reported and ends the process
RunCommand(returns) ==
    /\ proc[1].pc = "parsed"
    /\ returns \/ proc[1].command = "classmap"
    /\ proc' =
         IF proc[1].command \in Commands
         THEN IF returns
              THEN <<[proc[1] EXCEPT !.pc = "ran", !.work = Append(@, proc[1].command)]>>
              ELSE <<[proc[1] EXCEPT !.pc = "exited", !.work = Append(@, proc[1].command),
                                     !.stderr = Append(@, "failed to write autoload files"),
                                     !.exit = 1]>>
         ELSE <<[proc[1] EXCEPT !.pc = "exited", !.stderr = Append(@, "unknown command"),
                                !.exit = 1]>>
    /\ UNCHANGED <<fs, now, disk, pending, ops, last, runs, cin, cout, vin, vres, din, dres,
                   min, mres, xin, xres, pin, pres>>

\* the timing line on standard error, the output on standard output
PrintOutput ==
    /\ proc[1].pc = "ran"
    /\ proc' = <<[proc[1] EXCEPT !.pc = "exited", !.stderr = Append(@, "timing"),
                                 !.stdout = Append(@, "json"), !.exit = 0]>>
    /\ UNCHANGED <<fs, now, disk, pending, ops, last, runs, cin, cout, vin, vres, din, dres,
                   min, mres, xin, xres, pin, pres>>

InitMain ==
    /\ fs = InitTree({})
    /\ disk = NoFile
    /\ RunIdle
    /\ cin = <<>> /\ cout = <<>> /\ vin = <<>> /\ vres = <<>> /\ din = <<>> /\ dres = <<>>
    /\ min = <<>> /\ mres = <<>> /\ xin = <<>> /\ xres = <<>> /\ pin = <<>> /\ pres = <<>>
    /\ \E version \in BOOLEAN, stdin \in Stdins :
         proc = <<[pc |-> "start", version |-> version, stdin |-> stdin, command |-> "",
                   work |-> <<>>, stdout |-> <<>>, stderr |-> <<>>, exit |-> -1]>>

NextMain ==
    \/ PrintVersion
    \/ ReadStdin
    \/ ParseInput
    \/ \E returns \in BOOLEAN : RunCommand(returns)
    \/ PrintOutput

SpecMain == InitMain /\ [][NextMain]_vars

\* the input is not one JSON object of the documented shape
malformed(stdin) ==
    \/ ~stdin.utf8
    \/ stdin.syntax # "value"
    \/ stdin.command \in {"absent", "number"}
    \/ stdin.write_files = "string"

\* the input names a command the process does not have
unrecognized(stdin) ==
    ~malformed(stdin) /\ stdin.command \notin Commands

C28_WitnessCommand ==
    /\ proc[1].pc = "exited"
    /\ ~proc[1].version /\ proc[1].stdin.command = "Classmap" /\ proc[1].stdin.unknown
    /\ proc[1].exit = 1 /\ proc[1].stderr = <<"unknown command">>
    /\ proc[1].work = <<>> /\ proc[1].stdout = <<>>

-----------------------------------------------------------------------------
(* walk_and_parse_full step by step: the walker threads of the parallel     *)
(* directory walk, the channel they send on, the receive loop, the parse    *)
(* tasks and the merge loop.  proc is the call: the main thread's position  *)
(* (pc), what each walker thread holds, and the locals of the function.     *)

\* the walk's thread count (num_cpus() is at least 1)
WalkThreads == 2
Threads == 1..WalkThreads

DeepDir == TDir \o <<"/", "e">>
FileNote == DeepDir \o <<"/", "n", ".", "t">>
\* the source directory written with a trailing separator
SrcSlash == SrcDir \o Slash

\* the entries of the tree, each under one name
WalkNodes == {SrcDir, TDir, DeepDir, FileA, FileTA, FileNote}
WalkDirs == {SrcDir, TDir, DeepDir}

\* the entry a path names
canonical(path) == strip_suffix_or(path, Slash)

\* the directory holding an entry, and the entry's name in it
parent(path) == SubSeq(path, 1, rfind(path, "/") - 1)
file_name(path) == SubSeq(path, rfind(path, "/") + 1, Len(path))

\* read_dir: the entries of a directory, as paths joined to the directory's
children(dir) ==
    {dir_prefix(dir) \o file_name(p) : p \in {q \in WalkNodes : exists(q) /\ parent(q) = canonical(dir)}}

\* the trees: the source directory, with or without a file, a subdirectory
\* (with or without a source file) and a directory in that holding at most
\* a file that is no source file
WalkTrees ==
    {[p \in WalkNodes \cup {SrcSlash} |->
        IF canonical(p) \in WalkDirs
        THEN IF canonical(p) \in present \cup {SrcDir}
             THEN [kind |-> "dir", mtime |-> 1, content |-> "none"] ELSE Absent
        ELSE IF p \in present /\ parent(p) \in present \cup {SrcDir}
             THEN [kind |-> "file", mtime |-> 1,
                   content |-> IF p = FileNote THEN "none" ELSE IF p = FileA THEN a ELSE "B"]
             ELSE Absent] :
     present \in {q \in SUBSET (WalkNodes \ {SrcDir}) : DeepDir \in q => TDir \in q},
     a \in {"A", "locked"}}

\* the configured roots
WalkRootLists ==
    {<<SrcDir>>, <<SrcSlash>>, <<SrcDir, TDir>>, <<TDir, FileA>>, <<FileA>>, <<DeepDir, SrcDir>>}

\* the exclusion patterns
WalkExcludes == {{}, {TDir}}

\* the caches: none, or one that holds the source file's record
WalkCaches ==
    {DefaultCache,
     [version |-> CACHE_VERSION, files |-> [p \in {FileA} |-> [mtime |-> 1, symbols |-> <<ClassA>>]],
      dir_mtimes |-> [d \in {SrcDir} |-> 0]]}

NoEntry == <<>>

\* a plausible slip: a directory that an exclusion pattern matches is passed over
visit_skip_excluded_dirs(path, excludes) ==
    IF is_dir(path) /\ ~excluded(excludes, path)
    THEN <<[kind |-> "Dir", path |-> path, mtime |-> get_mtime(path)]>>
    ELSE IF ~is_file(path) THEN <<>>
    ELSE IF ~has_php_extension(path) THEN <<>>
    ELSE IF excluded(excludes, path) THEN <<>>
    ELSE <<[kind |-> "File", path |-> path, mtime |-> 0]>>

\* the closure given to build_parallel().run: the message it sends for an entry
visit(path, excludes) ==
    IF is_dir(path) THEN <<[kind |-> "Dir", path |-> path, mtime |-> get_mtime(path)]>>
    ELSE IF ~is_file(path) THEN <<>>
    ELSE IF ~has_php_extension(path) THEN <<>>
    ELSE IF excluded(excludes, path) THEN <<>>
    ELSE <<[kind |-> "File", path |-> path, mtime |-> 0]>>

\* a plausible slip: the walk is taken to be over once no entry is waiting
walk_finished_none_waiting(w) == w.pool = {}

\* run() returns: no entry is waiting and no thread is at work
walk_finished(w) == w.pool = {} /\ \A t \in Threads : w.held[t] = NoEntry

\* map.insert(key, value)
insert(map, key, value) ==
    [k \in DOMAIN map \cup {key} |-> IF k = key THEN value ELSE map[k]]

\* the first loop: single files to `paths`, existing directories to `walk_dirs`;
\* without a directory there is no walk
WalkBegin ==
    /\ proc[1].pc = "start"
    /\ LET w == proc[1]
           single == SelectSeq(w.dirs, LAMBDA d : is_file(d) /\ has_php_extension(d))
           walk_dirs == SelectSeq(w.dirs, LAMBDA d : exists(d) /\ ~is_file(d))
       IN  proc' = <<[w EXCEPT !.pc = IF walk_dirs = <<>> THEN "parse" ELSE "walk",
                               !.paths = single,
                               !.walk_dirs = walk_dirs,
                               !.pool = {[root |-> i, path |-> walk_dirs[i]] :
                                           i \in 1..Len(walk_dirs)},
                               !.results = [i \in 1..Len(single) |-> NoResult]]>>
    /\ UNCHANGED <<fs, now, disk, pending, ops, last, runs, cin, cout, vin, vres, din, dres,
                   min, mres, xin, xres, pin, pres>>

\* a walker thread takes a waiting entry
WalkTake(t) ==
    /\ proc[1].pc \in {"walk", "receive"}
    /\ proc[1].held[t] = NoEntry
    /\ \E e \in proc[1].pool :
         proc' = <<[proc[1] EXCEPT !.held[t] = <<e>>, !.pool = @ \ {e}]>>
    /\ UNCHANGED <<fs, now, disk, pending, ops, last, runs, cin, cout, vin, vres, din, dres,
                   min, mres, xin, xres, pin, pres>>

\* the thread calls the closure on the entry it holds, which sends at most one
\* message, and puts the entries of a directory among the waiting ones
WalkVisit(t) ==
    /\ proc[1].pc \in {"walk", "receive"}
    /\ proc[1].held[t] # NoEntry
    /\ LET w == proc[1]
           e == w.held[t][1]
           message == visit(e.path, w.excludes)
       IN  proc' = <<[w EXCEPT !.held[t] = NoEntry,
                               !.channel = @ \o message,
                               !.sent = @ \o message,
                               !.pool = @ \cup (IF is_dir(e.path)
                                                THEN {[root |-> e.root, path |-> c] :
                                                        c \in children(e.path)}
                                                ELSE {})]>>
    /\ UNCHANGED <<fs, now, disk, pending, ops, last, runs, cin, cout, vin, vres, din, dres,
                   min, mres, xin, xres, pin, pres>>

\* run() returns and the sender is dropped
WalkReturns ==
    /\ proc[1].pc = "walk"
    /\ walk_finished(proc[1])
    /\ proc' = <<[proc[1] EXCEPT !.pc = "receive"]>>
    /\ UNCHANGED <<fs, now, disk, pending, ops, last, runs, cin, cout, vin, vres, din, dres,
                   min, mres, xin, xres, pin, pres>>

\* one turn of `for entry in rx`
Receive ==
    /\ proc[1].pc = "receive"
    /\ proc[1].channel # <<>>
    /\ LET w == proc[1]
           entry == Head(w.channel)
       IN  proc' = <<[w EXCEPT !.channel = Tail(@),
                               !.received = Append(@, entry),
                               !.paths = IF entry.kind = "File" THEN Append(@, entry.path) ELSE @,
                               !.dir_mtimes = IF entry.kind = "Dir"
                                              THEN insert(@, entry.path, entry.mtime) ELSE @]>>
    /\ UNCHANGED <<fs, now, disk, pending, ops, last, runs, cin, cout, vin, vres, din, dres,
                   min, mres, xin, xres, pin, pres>>

\* the loop ends: the channel is empty and every sender is gone
ReceiveEnds ==
    /\ proc[1].pc = "receive"
    /\ proc[1].channel = <<>>
    /\ proc' = <<[proc[1] EXCEPT !.pc = "parse",
                                 !.results = [i \in 1..Len(proc[1].paths) |-> NoResult]]>>
    /\ UNCHANGED <<fs, now, disk, pending, ops, last, runs, cin, cout, vin, vres, din, dres,
                   min, mres, xin, xres, pin, pres>>

\* one task of paths.par_iter().map(parse_one_file): its result, and the two
\* atomic counters
ParseTask(i) ==
    /\ proc[1].pc = "parse"
    /\ i \in 1..Len(proc[1].paths) /\ i \notin proc[1].parsed
    /\ LET w == proc[1]
           result == parse_one_file(w.paths[i], w.cache.files)
       IN  proc' = <<[w EXCEPT !.parsed = @ \cup {i},
                               !.results[i] = result,
                               !.files_scanned = @ + result.scanned,
                               !.cache_hits = @ + result.hit]>>
    /\ UNCHANGED <<fs, now, disk, pending, ops, last, runs, cin, cout, vin, vres, din, dres,
                   min, mres, xin, xres, pin, pres>>

\* collect() returns when every task has
Collect ==
    /\ proc[1].pc = "parse"
    /\ proc[1].parsed = 1..Len(proc[1].paths)
    /\ proc' = <<[proc[1] EXCEPT !.pc = "merge"]>>
    /\ UNCHANGED <<fs, now, disk, pending, ops, last, runs, cin, cout, vin, vres, din, dres,
                   min, mres, xin, xres, pin, pres>>

\* one turn of `for result in results.into_iter().flatten()`
MergeTurn ==
    /\ proc[1].pc = "merge"
    /\ proc[1].merged < Len(proc[1].paths)
    /\ LET w == proc[1]
           i == w.merged + 1
           result == w.results[i]
       IN  proc' = <<[w EXCEPT !.merged = i,
                               !.entries = IF result.some THEN @ \o result.entries ELSE @,
                               !.new_files = IF result.some
                                             THEN insert(@, w.paths[i], result.cache_entry)
                                             ELSE @]>>
    /\ UNCHANGED <<fs, now, disk, pending, ops, last, runs, cin, cout, vin, vres, din, dres,
                   min, mres, xin, xres, pin, pres>>

\* the WalkResult
WalkEnds ==
    /\ proc[1].pc = "merge"
    /\ proc[1].merged = Len(proc[1].paths)
    /\ LET w == proc[1]
       IN  proc' = <<[w EXCEPT !.pc = "done",
                               !.result = <<[entries |-> w.entries,
                                             files_scanned |-> w.files_scanned,
                                             php_files_found |-> Len(w.paths),
                                             directories_walked |-> Len(w.walk_dirs),
                                             cache_hits |-> w.cache_hits,
                                             new_cache |-> [version |-> CACHE_VERSION,
                                                            files |-> w.new_files,
                                                            dir_mtimes |-> w.dir_mtimes],
                                             walk_skipped |-> FALSE]>>]>>
    /\ UNCHANGED <<fs, now, disk, pending, ops, last, runs, cin, cout, vin, vres, din, dres,
                   min, mres, xin, xres, pin, pres>>

\* the next run, on the tree as it is, asks dirs_unchanged of the new cache
CheckAgain ==
    /\ proc[1].pc = "done"
    /\ dres = <<>>
    /\ dres' = <<dirs_unchanged(proc[1].result[1].new_cache, proc[1].dirs)>>
    /\ UNCHANGED <<fs, now, disk, pending, ops, last, runs, cin, cout, vin, vres, din,
                   min, mres, xin, xres, pin, pres, proc>>

InitWalk ==
    /\ fs \in WalkTrees
    /\ disk = NoFile
    /\ RunIdle
    /\ cin = <<>> /\ cout = <<>> /\ vin = <<>> /\ vres = <<>> /\ din = <<>> /\ dres = <<>>
    /\ min = <<>> /\ mres = <<>> /\ xin = <<>> /\ xres = <<>> /\ pin = <<>> /\ pres = <<>>
    /\ \E dirs \in WalkRootLists, excludes \in WalkExcludes, cache \in WalkCaches :
         proc = <<[pc |-> "start", dirs |-> dirs, excludes |-> excludes, cache |-> cache,
                   paths |-> <<>>, walk_dirs |-> <<>>, pool |-> {},
                   held |-> [t \in Threads |-> NoEntry],
                   channel |-> <<>>, sent |-> <<>>, received |-> <<>>,
                   dir_mtimes |-> <<>>, parsed |-> {}, results |-> <<>>,
                   files_scanned |-> 0, cache_hits |-> 0,
                   entries |-> <<>>, new_files |-> <<>>, merged |-> 0, result |-> <<>>]>>

NextWalk ==
    \/ WalkBegin
    \/ \E t \in Threads : WalkTake(t)
    \/ \E t \in Threads : WalkVisit(t)
    \/ WalkReturns
    \/ Receive
    \/ ReceiveEnds
    \/ \E i \in 1..Len(proc[1].paths) : ParseTask(i)
    \/ Collect
    \/ MergeTurn
    \/ WalkEnds
    \/ CheckAgain

SpecWalk == InitWalk /\ [][NextWalk]_vars

\* every thread and the main thread get their turns
FairWalk == SpecWalk /\ WF_vars(NextWalk)

\* the directories at and beneath a root, named as the walk names them
traversed(root) ==
    {root} \cup {dir_prefix(root) \o SubSeq(d, Len(canonical(root)) + 2, Len(d)) :
                   d \in {q \in WalkDirs : exists(q) /\ starts_with(q, dir_prefix(canonical(root)))}}

\* the receive loop has ended
received_all == proc[1].pc \in {"parse", "merge", "done"} /\ proc[1].walk_dirs # <<>>

\* C29: after a full walk the directory table has, with its mtime, every
\* directory at or beneath a configured root that is an existing directory,
\* directories holding only excluded files or no source file included, so
\* the dirs_unchanged check of the next run finds every existing root
\* directory in the table.
C29_CompleteDirTable ==
    /\ received_all =>
         /\ DOMAIN proc[1].dir_mtimes
              = UNION {traversed(proc[1].dirs[i]) : i \in {j \in 1..Len(proc[1].dirs) : is_dir(proc[1].dirs[j])}}
         /\ \A d \in DOMAIN proc[1].dir_mtimes : proc[1].dir_mtimes[d] = get_mtime(d)
    /\ dres # <<>> =>
         /\ \A i \in 1..Len(proc[1].dirs) :
               is_dir(proc[1].dirs[i]) => proc[1].dirs[i] \in DOMAIN proc[1].result[1].new_cache.dir_mtimes
         /\ (proc[1].walk_dirs # <<>> /\ DOMAIN proc[1].result[1].new_cache.files # {}) => dres[1]

\* the walk of the source directory, given with a trailing separator, with an
\* excluded subdirectory that holds a directory with only a text file
C29_Witness ==
    /\ dres = <<TRUE>>
    /\ proc[1].dirs = <<SrcSlash>> /\ proc[1].excludes = {TDir}
    /\ is_file(FileTA) /\ is_file(FileNote)
    /\ DOMAIN proc[1].result[1].new_cache.dir_mtimes = {SrcSlash, TDir, DeepDir}
    /\ DOMAIN proc[1].result[1].new_cache.files = {FileA}

\* what parse_one_file gives for each of the paths
parsed_alone(w) == [i \in 1..Len(w.paths) |-> parse_one_file(w.paths[i], w.cache.files)]

\* the walk is over and nothing is in flight before a file is parsed, and
\* every file is parsed before anything is merged
in_sequence(w) ==
    /\ w.pc \in {"parse", "merge", "done"} =>
         /\ w.pool = {} /\ \A t \in Threads : w.held[t] = NoEntry
         /\ w.channel = <<>>
         /\ w.received = w.sent
    /\ w.pc \in {"start", "walk", "receive"} => w.parsed = {}
    /\ w.pc \in {"merge", "done"} => w.parsed = 1..Len(w.paths)
    /\ w.pc \in {"start", "walk", "receive", "parse"} => w.merged = 0

\* the counters and tables of the result are those of the files one by one
sums_over_files(w) ==
    w.pc = "done" =>
       /\ w.result[1].php_files_found = Len(w.paths)
       /\ w.result[1].files_scanned = count(parsed_alone(w), "scanned")
       /\ w.result[1].cache_hits = count(parsed_alone(w), "hit")
       /\ w.result[1].entries = merged_entries(w.paths, parsed_alone(w))
       /\ w.result[1].new_cache.files = merged_files(w.paths, parsed_alone(w))

\* C30: in a full walk no file is parsed before the traversal is over and
\* every message the walker threads sent has been received, in the order
\* sent; the tables are written only by the merge loop, after every parse
\* task is done; the result's counters and tables are the sums over the
\* files; and the call returns.
C30_PhasesInSequence ==
    /\ [](in_sequence(proc[1]) /\ sums_over_files(proc[1]))
    /\ [][(proc'[1].entries # proc[1].entries \/ proc'[1].new_files # proc[1].new_files)
            => (proc[1].pc = "merge" /\ proc[1].parsed = 1..Len(proc[1].paths))]_vars
    /\ <>(proc[1].pc = "done")

\* a walk of two nested roots by two threads, messages received as sent, one
\* file found twice, one record served from the cache
C30_Witness ==
    /\ proc[1].pc = "done"
    /\ proc[1].dirs = <<SrcDir, TDir>>
    /\ Len(proc[1].sent) = 6 /\ proc[1].received = proc[1].sent
    /\ proc[1].sent[1].path = SrcDir /\ proc[1].sent[2].path = TDir /\ proc[1].sent[3].path = FileTA
    /\ proc[1].result[1].php_files_found = 3
    /\ proc[1].result[1].files_scanned = 3
    /\ proc[1].result[1].cache_hits = 1

-----------------------------------------------------------------------------
(* run() with exclude_from_classmap given as the caller supplies it: the    *)
(* source text of each pattern.  The tree is a source directory with a file *)
(* and a subdirectory with a file; the source directory is the one root.    *)

\* the patterns supplied: regexes in the caller's form for the subdirectory
\* and for the file, a bare word, a glob, its regex, and a group left open
PatternSources ==
    {chars("/s/T($|/)"), chars("/s/A\\.php($|/)"), chars("T"), chars("*T*"), chars(".*T.*"),
     chars("(T")}

\* the first statement of run: the patterns that compile
compiled_excludes(sources) == UNION {Range(Regex_new(p)) : p \in sources}

\* run(config) with a target_dir, the source directory as the classmap root,
\* the patterns of xin, and a cache write that succeeds
RunPatterns(ord) ==
    /\ runs < MaxRuns
    /\ \E cache \in {load_cache(disk)}, excludes \in {compiled_excludes(xin.excludes)} :
       \E wr \in {walk_and_parse(all_dirs(<<>>, <<>>, xin.classmap), excludes, cache,
                                 VendorDir, ord)} :
          /\ disk' = save_cache(disk, wr.new_cache, "ok")
          /\ xres' = Append(xres, [walk_skipped |-> wr.walk_skipped,
                                   excludes |-> excludes,
                                   classmap |-> build_classmap(wr.entries, <<>>, <<>>,
                                                               xin.classmap, <<>>)])
    /\ runs' = runs + 1
    /\ UNCHANGED <<fs, now, pending, ops, last, cin, cout, vin, vres, din, dres, min, mres,
                   xin, pin, pres, proc>>

InitPatterns ==
    /\ fs \in ExcludeTrees
    /\ disk = NoFile
    /\ RunIdle
    /\ xin \in [classmap : {<<SrcDir>>},
                excludes : {ps \in SUBSET PatternSources : Cardinality(ps) <= 2}]
    /\ xres = <<>>
    /\ cin = <<>> /\ cout = <<>> /\ vin = <<>> /\ vres = <<>> /\ din = <<>> /\ dres = <<>>
    /\ min = <<>> /\ mres = <<>> /\ pin = <<>> /\ pres = <<>> /\ proc = <<>>

NextPatterns == \E ord \in ExcludeOrders : RunPatterns(ord)

SpecPatterns == InitPatterns /\ [][NextPatterns]_vars

\* a glob matches a path: `*` stands for any text, every other character for
\* itself, and the whole path is matched
glob_matches(source, path) ==
    match_here([i \in 1..Len(source) |->
                   IF source[i] = "*" THEN [kind |-> "any", c |-> "", star |-> TRUE]
                   ELSE RegexItem("char", source[i])] \o <<RegexItem("end", "")>>,
               path, 1)

\* a path matches a pattern as supplied: as the regex the text is, or, when
\* the text is no regex, as the glob it is
matches_supplied(source, path) ==
    IF Regex_new(source) # <<>> THEN regex_search(Regex_new(source)[1], path)
    ELSE glob_matches(source, path)

\* the symbols of the files whose path matches none of the patterns
remaining_symbols(matches(_, _)) ==
    UNION {Range(extract_php_symbols(fs[f].content)) :
             f \in {g \in ExcludeFiles : ~\E p \in xin.excludes : matches(p, g)}}

\* C31: every supplied pattern, a glob-style one included, is applied: after
\* every invocation the table holds the symbols of the files whose path
\* matches no supplied pattern and of no other file, and as many patterns
\* are in force as were supplied.
C31_AsStated ==
    \A i \in 1..Len(xres) :
        /\ DOMAIN xres[i].classmap = remaining_symbols(matches_supplied)
        /\ \A c \in DOMAIN xres[i].classmap :
              ~\E p \in xin.excludes : matches_supplied(p, xres[i].classmap[c])
        /\ Cardinality(xres[i].excludes) = Cardinality(xin.excludes)

\* the glob *T* was supplied alone, and the file under /s/T is in the table
\* after the full walk and after the fast path
C31_Witness ==
    /\ Len(xres) = 2 /\ ~xres[1].walk_skipped /\ xres[2].walk_skipped
    /\ xin.excludes = {chars("*T*")}
    /\ \A i \in 1..2 :
          /\ xres[i].excludes = {}
          /\ \E c \in DOMAIN xres[i].classmap : xres[i].classmap[c] = FileTA

\* the text is a regex
compiles(source) == Regex_new(source) # <<>>

\* what does hold: the patterns that are regexes are applied, the others are
\* dropped without a diagnostic and the run goes on as if they were not given
C31_RegexPatternsApplied ==
    \A i \in 1..Len(xres) :
        /\ DOMAIN xres[i].classmap
             = remaining_symbols(LAMBDA p, g : compiles(p) /\ matches_supplied(p, g))
        /\ \A c \in DOMAIN xres[i].classmap :
              ~\E p \in xin.excludes : compiles(p) /\ matches_supplied(p, xres[i].classmap[c])
        /\ Cardinality(xres[i].excludes) = Cardinality({p \in xin.excludes : compiles(p)})

-----------------------------------------------------------------------------
(* extract (extract.rs): run on one package whose archive is a zip.  The    *)
(* archive is the sequence of its entry names (a directory entry ends with  *)
(* "/"); a file written is known by the entry its bytes came from.  proc is *)
(* the call: the archive, what the destination held, and the outcome.       *)

MaxEntries == 3

\* the entry names: a top-level directory and entries in it, a top-level
\* file, an entry of a second directory, and names that leave the place they
\* are joined to
EntryNames ==
    {chars("p/"), chars("p/a"), chars("p/d/b"), chars("a"), chars("q/c"),
     chars("../x"), chars("/x"), chars("p/../../y")}

\* the archives: up to MaxEntries distinct names
Archives ==
    {names \in SeqUpTo(EntryNames, MaxEntries) :
        \A i, j \in 1..Len(names) : names[i] = names[j] => i = j}

\* name.split('/').next()
first_component(name) ==
    IF "/" \in Range(name)
    THEN SubSeq(name, 1, (CHOOSE i \in 1..Len(name) :
                             name[i] = "/" /\ \A j \in 1..(i - 1) : name[j] # "/") - 1)
    ELSE name

\* detect_strip_prefix: <<prefix>> when every entry's first component is the
\* same non-empty text, <<>> otherwise
RECURSIVE detect_from(_, _, _)
detect_from(names, i, common) ==
    IF i > Len(names) THEN common
    ELSE LET c == first_component(names[i])
         IN  IF c = <<>> THEN <<>>
             ELSE IF common = <<>> THEN detect_from(names, i + 1, <<c \o Slash>>)
             ELSE IF common[1] # c \o Slash THEN <<>>
             ELSE detect_from(names, i + 1, common)

detect_strip_prefix(names) == detect_from(names, 1, <<>>)

\* the name an entry is extracted under
stripped(raw_name, strip) ==
    IF strip # <<>> /\ starts_with(raw_name, strip[1])
    THEN SubSeq(raw_name, Len(strip[1]) + 1, Len(raw_name))
    ELSE raw_name

\* file_entries: the stripped names that are not empty and name no directory
file_entries(names, strip) ==
    SelectSeq([i \in 1..Len(names) |-> stripped(names[i], strip)],
              LAMBDA r : r # <<>> /\ ~ends_with(r, Slash))

\* the components of a path
RECURSIVE split(_)
split(path) ==
    IF "/" \in Range(path)
    THEN <<first_component(path)>>
           \o split(SubSeq(path, Len(first_component(path)) + 2, Len(path)))
    ELSE <<path>>

\* where the components lead from a directory `depth` levels beneath the
\* destination: the components left, or <<"..">> once the destination is left
RECURSIVE descend(_, _)
descend(parts, under) ==
    IF parts = <<>> THEN under
    ELSE IF Head(parts) \in {<<>>, <<".">>} THEN descend(Tail(parts), under)
    ELSE IF Head(parts) = <<".", ".">>
         THEN IF under = <<>> THEN << <<".", ".">> >>
              ELSE descend(Tail(parts), SubSeq(under, 1, Len(under) - 1))
    ELSE descend(Tail(parts), Append(under, Head(parts)))

\* dest.join(relative): the place beneath the destination, or "outside" for
\* an absolute name (which replaces the destination) and for one that climbs
\* out of it
joined(relative) ==
    IF starts_with(relative, Slash) THEN "outside"
    ELSE IF descend(split(relative), <<>>) = << <<".", ".">> >> THEN "outside"
    ELSE "beneath"

\* the closure of file_entries.par_iter().try_for_each: the entry the bytes
\* are read from (arch.by_name(full_name)), <<>> when there is none
entry_read(names, strip, relative) ==
    LET full_name == IF strip # <<>> THEN strip[1] \o relative ELSE relative
    IN  IF \E i \in 1..Len(names) : names[i] = full_name THEN <<full_name>> ELSE <<>>

\* run with one package: extract_one removes the destination and creates
\* it anew, extract_zip writes the files in parallel and stops at the first
\* error, so that any of the other files may have been written by then
ExtractRun ==
    /\ proc[1].pc = "start"
    /\ LET names == proc[1].names
           strip == detect_strip_prefix(names)
           files == Range(file_entries(names, strip))
           good == {r \in files : entry_read(names, strip, r) # <<>>}
       IN  \E written \in SUBSET good :
              /\ files = good => written = good
              /\ proc' = <<[proc[1] EXCEPT
                     !.pc = "done",
                     !.dest = [r \in {f \in written : joined(f) = "beneath"} |->
                                  entry_read(names, strip, r)[1]],
                     !.outside = {r \in written : joined(r) = "outside"},
                     !.total_files = Len(names),
                     !.extracted = IF files = good THEN 1 ELSE 0,
                     !.failed = IF files = good THEN <<>> ELSE <<"package">>]>>
    /\ UNCHANGED <<fs, now, disk, pending, ops, last, runs, cin, cout, vin, vres, din, dres,
                   min, mres, xin, xres, pin, pres>>

InitExtract ==
    /\ fs = InitTree({})
    /\ disk = NoFile
    /\ RunIdle
    /\ cin = <<>> /\ cout = <<>> /\ vin = <<>> /\ vres = <<>> /\ din = <<>> /\ dres = <<>>
    /\ min = <<>> /\ mres = <<>> /\ xin = <<>> /\ xres = <<>> /\ pin = <<>> /\ pres = <<>>
    /\ \E names \in Archives, previous \in {<<>>, [r \in {chars("old")} |-> chars("old")]} :
         proc = <<[pc |-> "start", names |-> names, dest |-> previous, outside |-> {},
                   total_files |-> 0, extracted |-> 0, failed |-> <<>>]>>

SpecExtract == InitExtract /\ [][ExtractRun]_vars

\* the archive's file entries
file_names(names) == {names[i] : i \in {j \in 1..Len(names) : ~ends_with(names[j], Slash)}}

\* the top-level directory every entry is in, if there is one
common_directory(names) ==
    IF names # <<>> /\ \A i \in 1..Len(names) :
           /\ "/" \in Range(names[i])
           /\ first_component(names[i]) # <<>>
           /\ first_component(names[i]) = first_component(names[1])
    THEN <<first_component(names[1]) \o Slash>>
    ELSE <<>>

\* where a file entry belongs beneath the destination
place_of(names, name) ==
    IF common_directory(names) # <<>>
    THEN SubSeq(name, Len(common_directory(names)[1]) + 1, Len(name))
    ELSE name

\* C32: after the extraction the destination holds exactly the archive's
\* file entries, each at its path without the common top-level directory if
\* all entries share one and at its own path otherwise, nothing of what it
\* held before and nothing outside it, and the package is counted as
\* extracted and not listed as failed.
C32_AsStated ==
    proc[1].pc = "done" =>
        /\ DOMAIN proc[1].dest = {place_of(proc[1].names, n) : n \in file_names(proc[1].names)}
        /\ \A n \in file_names(proc[1].names) :
              proc[1].dest[place_of(proc[1].names, n)] = n
        /\ proc[1].outside = {}
        /\ proc[1].extracted = 1 /\ proc[1].failed = <<>>

\* an archive of one file at its top level: the package failed and nothing
\* was written
C32_Witness ==
    /\ proc[1].pc = "done"
    /\ proc[1].names = <<chars("a")>>
    /\ proc[1].extracted = 0 /\ proc[1].failed = <<"package">>
    /\ DOMAIN proc[1].dest = {}

\* an entry whose name climbs out of the destination was written outside it
C32_WitnessOutside ==
    /\ proc[1].pc = "done"
    /\ proc[1].names = <<chars("p/a"), chars("p/../../y")>>
    /\ proc[1].extracted = 1
    /\ proc[1].outside = {chars("../../y")}

\* every name stays in the place it is joined to, and the entries do not all
\* begin with the name of a top-level file
plain_archive(names) ==
    /\ \A i \in 1..Len(names) :
          /\ ~starts_with(names[i], Slash)
          /\ <<".", ".">> \notin Range(split(names[i]))
    /\ ~(/\ (\E i \in 1..Len(names) : "/" \notin Range(names[i]))
          /\ (\A j \in 1..Len(names) : first_component(names[j]) = first_component(names[1])))

\* what does hold: the statement for such archives
C32_PlainArchives ==
    plain_archive(proc[1].names) => C32_AsStated

-----------------------------------------------------------------------------
(* run() invoked repeatedly on a tree that does not change, each time with  *)
(* the roots and exclusion patterns the caller supplies for that run.       *)

\* autoload.classmap of a run: directories
ReconfigRoots == {<<SrcDir>>, <<TDir>>, <<SrcDir, TDir>>}

\* exclude_from_classmap of a run
ReconfigPatterns == {{}, {TDir}, {FileA}}

\* run(config) with a target_dir, no PSR mappings, and a cache write that
\* succeeds
RunConfigured(classmap_dirs, excludes, ord) ==
    /\ runs < MaxRuns
    /\ \E cache \in {load_cache(disk)} :
       \E wr \in {walk_and_parse(all_dirs(<<>>, <<>>, classmap_dirs), excludes, cache,
                                 VendorDir, ord)} :
          /\ disk' = save_cache(disk, wr.new_cache, "ok")
          /\ xres' = Append(xres, [walk_skipped |-> wr.walk_skipped,
                                   classmap_dirs |-> classmap_dirs,
                                   excludes |-> excludes,
                                   cached |-> DOMAIN cache.files,
                                   files |-> DOMAIN wr.new_cache.files,
                                   present |-> {f \in DOMAIN fs : is_file(f)},
                                   readable |-> {f \in DOMAIN fs : can_read(f)},
                                   hits |-> {f \in DOMAIN cache.files :
                                               cache.files[f].mtime = get_mtime(f)},
                                   classmap |-> build_classmap(wr.entries, <<>>, <<>>,
                                                               classmap_dirs, <<>>)])
    /\ runs' = runs + 1
    /\ UNCHANGED <<fs, now, pending, ops, last, cin, cout, vin, vres, din, dres, min, mres,
                   xin, pin, pres, proc>>

InitReconfig ==
    /\ fs \in ExcludeTrees
    /\ disk = NoFile
    /\ RunIdle
    /\ Idle

NextReconfig ==
    \E classmap_dirs \in ReconfigRoots, excludes \in ReconfigPatterns, ord \in ExcludeOrders :
        RunConfigured(classmap_dirs, excludes, ord)

SpecReconfig == InitReconfig /\ [][NextReconfig]_vars

\* the tables a run without a cache gives under a configuration, one for each
\* order of delivery
uncached_tables(classmap_dirs, excludes) ==
    {build_classmap(walk_and_parse(all_dirs(<<>>, <<>>, classmap_dirs), excludes, DefaultCache,
                                   VendorDir, ord).entries,
                    <<>>, <<>>, classmap_dirs, <<>>) : ord \in ExcludeOrders}

\* C33: on an unchanging tree every run's table is a table that a run without
\* a cache gives under that run's roots and patterns, whatever the roots and
\* patterns of the runs before it were.
C33_AsStated ==
    \A i \in 1..Len(xres) :
        xres[i].classmap \in uncached_tables(xres[i].classmap_dirs, xres[i].excludes)

\* a run that excluded the subdirectory, then a run without patterns that
\* took the fast path: the cache had no record of the file in the
\* subdirectory and the table has no entry for it
C33_Witness ==
    /\ Len(xres) = 2
    /\ xres[1].classmap_dirs = <<SrcDir>> /\ xres[1].excludes = {TDir}
    /\ xres[2].classmap_dirs = <<SrcDir>> /\ xres[2].excludes = {}
    /\ xres[2].walk_skipped /\ FileTA \notin xres[2].cached
    /\ \A c \in DOMAIN xres[2].classmap : xres[2].classmap[c] # FileTA
    /\ \E t \in uncached_tables(<<SrcDir>>, {}) : \E c \in DOMAIN t : t[c] = FileTA

\* the files a configuration covers: beneath a root and matching no pattern
configured_files(classmap_dirs, excludes) ==
    {f \in ExcludeFiles : /\ \E k \in 1..Len(classmap_dirs) : beneath(f, classmap_dirs[k])
                          /\ ~excluded(excludes, f)}

\* what does hold: the statement for a run whose files were all covered by
\* the configuration of every run before it
C33_NoFileAdded ==
    \A i \in 1..Len(xres) :
        (\A j \in 1..(i - 1) :
            configured_files(xres[i].classmap_dirs, xres[i].excludes)
               \subseteq configured_files(xres[j].classmap_dirs, xres[j].excludes))
        => xres[i].classmap \in uncached_tables(xres[i].classmap_dirs, xres[i].excludes)

-----------------------------------------------------------------------------
(* run() invoked repeatedly on the tree of the run fixtures, which does not *)
(* change, with the roots of each run chosen among the vendor directory,    *)
(* the directory whose name extends the vendor directory's name, the source *)
(* directory and the source file.                                           *)

BoundaryRoots ==
    {<<VendorDir>>, <<SideDir>>, <<VendorDir, SideDir>>, <<SrcDir, VendorDir>>, <<FileA, SideDir>>}

InitBoundary ==
    /\ \E present \in SUBSET Files : fs = InitTree(present)
    /\ disk = NoFile
    /\ RunIdle
    /\ Idle

NextBoundary ==
    \E classmap_dirs \in BoundaryRoots, ord \in Orders : RunConfigured(classmap_dirs, {}, ord)

SpecBoundary == InitBoundary /\ [][NextBoundary]_vars

\* the file is a configured root or lies beneath one, on a component boundary
under_a_root(f, classmap_dirs) ==
    \E k \in 1..Len(classmap_dirs) : f = classmap_dirs[k] \/ beneath(f, classmap_dirs[k])

\* the files of a run's table and of its new cache
recorded_files(r) == {r.classmap[c] : c \in DOMAIN r.classmap} \cup r.files

\* C34: every file in a run's table and in its new cache is a configured
\* single-file root or lies beneath a configured root directory on a
\* path-component boundary, in full mode and on the fast path.
C34_AsStated ==
    \A i \in 1..Len(xres) :
        \A f \in recorded_files(xres[i]) : under_a_root(f, xres[i].classmap_dirs)

\* a run with the roots /v and /vx, then a run with the root /v alone on the
\* fast path: the file /vx/W.php is in its table and in its new cache
C34_Witness ==
    /\ Len(xres) = 2
    /\ xres[1].classmap_dirs = <<VendorDir, SideDir>> /\ ~xres[1].walk_skipped
    /\ xres[2].classmap_dirs = <<VendorDir>> /\ xres[2].walk_skipped
    /\ FileW \in xres[2].files
    /\ \E c \in DOMAIN xres[2].classmap : xres[2].classmap[c] = FileW

\* what does hold: the statement for the runs that walk
C34_FullWalk ==
    \A i \in 1..Len(xres) :
        ~xres[i].walk_skipped =>
            \A f \in recorded_files(xres[i]) : under_a_root(f, xres[i].classmap_dirs)

-----------------------------------------------------------------------------
(* is_class_valid called for one symbol and file with the mapping lists in  *)
(* different orders.                                                        *)

\* the orders of a list of n items
ListOrders(n) == {f \in [1..n -> 1..n] : \A i, j \in 1..n : f[i] = f[j] => i = j}

reordered(list, f) == [i \in 1..Len(list) |-> list[f[i]]]

\* is_class_valid with the PSR-4 and the PSR-0 list each in one of its orders
ValidateReordered(f4, f0) ==
    /\ Len(vres) < 2
    /\ LET psr4 == reordered(vin.psr4, f4)
           psr0 == reordered(vin.psr0, f0)
       IN  vres' = Append(vres, [psr4 |-> psr4, psr0 |-> psr0,
                                 valid |-> is_class_valid(vin.class, vin.file, psr4, psr0,
                                                          vin.classmap_dirs)])
    /\ UNCHANGED <<fs, now, disk, pending, ops, last, runs, cin, cout, vin, din, dres, min, mres,
                   xin, xres, pin, pres, proc>>

InitReorder ==
    /\ fs = InitTree({})
    /\ disk = NoFile
    /\ RunIdle
    /\ vin \in [class : ValidClasses, file : ValidFiles, psr4 : SeqUpTo(Psr4Maps, MaxMaps),
                psr0 : Psr0Lists, classmap_dirs : {<<>>, <<TDir>>}]
    /\ vres = <<>>
    /\ cin = <<>> /\ cout = <<>> /\ din = <<>> /\ dres = <<>> /\ min = <<>> /\ mres = <<>>
    /\ xin = <<>> /\ xres = <<>> /\ pin = <<>> /\ pres = <<>> /\ proc = <<>>

NextReorder ==
    \E f4 \in ListOrders(Len(vin.psr4)), f0 \in ListOrders(Len(vin.psr0)) :
        ValidateReordered(f4, f0)

SpecReorder == InitReorder /\ [][NextReorder]_vars

\* C35: is_class_valid gives the same answer for a symbol and a file under
\* every order of the PSR-4 list and of the PSR-0 list, two mappings of one
\* base path with different namespace prefixes included.
C35_AsStated ==
    \A i, j \in 1..Len(vres) : vres[i].valid = vres[j].valid

\* the class N\A in /s/A.php under the mappings N\ -> /s and "" -> /s is
\* eligible with the first listed first and not eligible with the second
\* listed first
C35_Witness ==
    /\ Len(vres) = 2
    /\ vin.class = ClassA /\ vin.file = FileA /\ vin.classmap_dirs = <<>> /\ vin.psr0 = <<>>
    /\ vres[1].psr4 = << <<NsN, SrcDir>>, <<<<>>, SrcDir>> >> /\ vres[1].valid
    /\ vres[2].psr4 = << <<<<>>, SrcDir>>, <<NsN, SrcDir>> >> /\ ~vres[2].valid

\* no two PSR-4 mappings have the same base path and different prefixes
one_prefix_per_base(psr4) ==
    \A i, j \in 1..Len(psr4) : psr4[i][2] = psr4[j][2] => psr4[i][1] = psr4[j][1]

\* what does hold: the statement for such lists, and for the PSR-0 list always
C35_OnePrefixPerBase ==
    \A i, j \in 1..Len(vres) :
        (one_prefix_per_base(vin.psr4) \/ vres[i].psr4 = vres[j].psr4)
            => vres[i].valid = vres[j].valid

-----------------------------------------------------------------------------
(* The rendered tables of a completed run: in the output or on disk.        *)

\* C36: a run that completes without the rendered contents in its output has
\* written the artifacts and reports files_written: whatever write_files,
\* staging_suffix and target_dir are, the tables are in the output or on disk.
C36_AsStated ==
    (last.fresh /\ last.exit = 0 /\ ~last.contents) =>
        /\ last.files_written
        /\ \A i \in 1..Len(last.artifacts) : \E w \in last.written : w[1] = last.artifacts[i]

\* a run asked to write files, with a staging suffix and without a target
\* directory: the output has no contents and files_written is false
C36_Witness ==
    /\ last.fresh /\ last.exit = 0
    /\ last.write_files /\ last.staging /\ ~last.td
    /\ Len(last.artifacts) > 0
    /\ ~last.contents /\ ~last.files_written /\ last.written = {}

\* what does hold: the statement for the runs with a target directory or
\* without a staging suffix
C36_TargetOrNoStaging ==
    (last.td \/ ~last.staging) => C36_AsStated

-----------------------------------------------------------------------------
(* run() invoked repeatedly on the tree of the run fixtures while files are *)
(* removed or made unreadable, with the roots and patterns of each run      *)
(* chosen anew: what the new cache keeps of the previous one.               *)

CarryRoots == {<<SrcDir, VendorDir>>, <<SrcDir, SideDir>>}

CarryPatterns == {{}, {FileA}}

InitCarry ==
    /\ fs = InitTree(Files)
    /\ disk = NoFile
    /\ RunIdle
    /\ Idle

NextCarry ==
    \/ \E classmap_dirs \in CarryRoots, excludes \in CarryPatterns, ord \in Orders :
          RunConfigured(classmap_dirs, excludes, ord)
    \/ \E f \in {FileA, FileV} : LoseFile(f)
    \/ LockFile(FileA)
    \/ TickUnread

SpecCarry == InitCarry /\ [][NextCarry]_vars

\* the files a walk of the run's roots finds and sends: source files beneath
\* a root that match no pattern
walked_files(r) ==
    {f \in r.present : /\ \E k \in 1..Len(r.classmap_dirs) : beneath(f, r.classmap_dirs[k])
                       /\ ~excluded(r.excludes, f)}

\* after a full walk the new cache has a record of exactly the files found
\* that were read or served by an mtime hit
full_walk_exact(r) ==
    ~r.walk_skipped => r.files = {f \in walked_files(r) : f \in r.readable \/ f \in r.hits}

C37_WitnessFastPath ==
    /\ Len(xres) = 2
    /\ xres[2].walk_skipped
    /\ FileA \in xres[2].cached /\ FileA \notin xres[2].present
    /\ FileA \notin xres[2].files

-----------------------------------------------------------------------------
(* extract_php_symbols on texts in which the word "namespace" stands both   *)
(* in declarations and, followed by a separator, as the namespace-relative  *)
(* operator of a name used in code.                                         *)

\* The fragments: what each one is in PHP ("ns": a declaration of the
\* namespace `name`; "decl": a declaration of the class `name`; "use": code
\* that uses a name relative to the current namespace; "code": other code).
OperatorTokens ==
    { [text |-> "namespace A;",          kind |-> "ns",   name |-> "A"],
      [text |-> "namespace B\\C;",       kind |-> "ns",   name |-> "B\\C"],
      [text |-> "class X{}",             kind |-> "decl", name |-> "X"],
      [text |-> "interface Y{}",         kind |-> "decl", name |-> "Y"],
      [text |-> "namespace\\Foo::f();",  kind |-> "use",  name |-> ""],
      [text |-> "$x=namespace\\g();",    kind |-> "use",  name |-> ""],
      [text |-> "f();",                  kind |-> "code", name |-> ""] }

OperatorFragments == {t.text : t \in OperatorTokens}

token_of(fragment) == CHOOSE t \in OperatorTokens : chars(t.text) = fragment

InitOperator == InitParse(Fragments(OperatorFragments, MaxToks))

SpecOperator == InitOperator /\ [][Extract]_vars

\* the namespace declared last before the i-th fragment
RECURSIVE declared_namespace(_, _)
declared_namespace(fragments, i) ==
    IF i <= 1 THEN <<>>
    ELSE IF token_of(fragments[i - 1]).kind = "ns" THEN chars(token_of(fragments[i - 1]).name)
    ELSE declared_namespace(fragments, i - 1)

\* the symbols the declarations of the text introduce, each under the
\* namespace declared last before it
RECURSIVE declared_symbols(_, _)
declared_symbols(fragments, i) ==
    IF i > Len(fragments) THEN <<>>
    ELSE LET t == token_of(fragments[i])
             ns == declared_namespace(fragments, i)
             here == IF t.kind # "decl" THEN <<>>
                     ELSE IF ns = <<>> THEN <<chars(t.name)>>
                     ELSE <<ns \o <<"\\">> \o chars(t.name)>>
         IN  here \o declared_symbols(fragments, i + 1)

\* C38: the symbols extract_php_symbols returns stand under the namespace
\* of the last namespace declaration before them; a use of the word
\* namespace as the namespace-relative operator in code between the
\* declaration and the symbol changes nothing.
C38_AsStated ==
    pres # <<>> => pres[1] = declared_symbols(pin, 1)

\* a call through the namespace-relative operator between a namespace
\* declaration and a class: the class comes out under the name the operator
\* was applied to
C38_Witness ==
    /\ pin = <<chars("namespace A;"), chars("namespace\\Foo::f();"), chars("class X{}")>>
    /\ pres = << <<chars("\\Foo\\X")>> >>

\* no declaration of the text follows a use of the operator
no_operator_before_declaration(fragments) ==
    \A i \in 1..Len(fragments), j \in 1..Len(fragments) :
        (i < j /\ token_of(fragments[i]).kind = "use") => token_of(fragments[j]).kind # "decl"

\* in a text where no declaration follows a use of the operator, every
\* symbol stands under the namespace declared last before it
C38_DeclarationsOnly ==
    (pres # <<>> /\ no_operator_before_declaration(pin)) => pres[1] = declared_symbols(pin, 1)

====
